---- MODULE Spec2Model ----
(***************************************************************************)
(* Derived financial metrics of the expense-tracker client: the totals,    *)
(* category breakdowns, month sums, percent changes, trend series and      *)
(* budget usage figures that the dashboard pages compute on every render   *)
(* from the lists their queries returned.                                  *)
(*                                                                         *)
(* Money is counted in integer minor units, on which the additions and     *)
(* subtractions of the source's doubles are exact.  Quotients are kept as  *)
(* exact fractions (JS numbers below), except the budget usage percentage, *)
(* whose comparison against the threshold depends on the rounding of the   *)
(* quotient and is therefore computed at IEEE-754 binary64 precision       *)
(* (Double below).                                                         *)
(***************************************************************************)
EXTENDS Integers, Sequences, FiniteSets, TLC

VARIABLES
    operands,       \* arguments of a directly applied helper (percentChange)
    expenses,       \* expense list the page's query returned
    deposits,       \* deposit list the page's query returned
    now,            \* the clock read by `new Date()` during the render
    searchTerm,     \* search box of the expenses / deposits / budgets page
    budgets,        \* budget list the budgets query returned
    budgetSummary,  \* budget summary the summary query returned
    selectedYear,   \* year selector of the budgets page
    expensesQuery,  \* state of the overview's all-expenses query
    depositsQuery,  \* state of the overview's all-deposits query
    formData,       \* the fields of the budget form
    isModalOpen,    \* whether the budget form is open
    isPending,      \* whether the create/update mutation is in flight
    lastRequest,    \* the budget the mutation sent last, if any
    editingBudget,  \* id of the budget being edited, 0 for null
    inFlight,       \* number of save requests of the budget form under way
    invalidated,    \* query keys invalidated and not yet fetched again
    expensesPage,   \* the expense form: isModalOpen, editingExpense, formData,
                    \* loading, and whether its list queries are invalidated
    saving,         \* handleSubmit of the expense form: position and closure
    calls,          \* the save requests the expense form has sent
    storage,        \* which of 'token' and 'user' localStorage holds
    location,       \* the path the router shows
    href,           \* the path assigned to window.location.href, if any
    request,        \* the call to the users API that is under way
    route,          \* ProtectedRoute: isAuthenticated, isLoading, checkAuth
    signIn,         \* the Login or Register page: error, isLoading, onSubmit
    page,           \* the page rendered last
    out             \* the values that render derived

form == <<formData, isModalOpen, isPending, lastRequest, editingBudget,
          inFlight, invalidated>>

expenseForm == <<expensesPage, saving, calls>>

session == <<storage, location, href, request, route, signIn>>

vars == <<operands, expenses, deposits, now, searchTerm, budgets,
          budgetSummary, selectedYear, expensesQuery, depositsQuery,
          form, expenseForm, session, page, out>>

(***************************************************************************)
(* JS numbers whose value is an exact fraction, or NaN.                    *)
(***************************************************************************)
Abs(n) == IF n < 0 THEN -n ELSE n

RECURSIVE Gcd(_, _)
Gcd(a, b) == IF b = 0 THEN a ELSE Gcd(b, a % b)

Frac(n, d) ==
    LET g == Gcd(Abs(n), d)
    IN  [nan |-> FALSE, num |-> n \div g, den |-> d \div g]

Num(n) == [nan |-> FALSE, num |-> n, den |-> 1]

NaN == [nan |-> TRUE, num |-> 0, den |-> 1]

\* a + b
JSAdd(a, b) ==
    IF a.nan \/ b.nan THEN NaN
    ELSE Frac(a.num * b.den + b.num * a.den, a.den * b.den)

\* a - b
JSSub(a, b) ==
    IF a.nan \/ b.nan THEN NaN
    ELSE Frac(a.num * b.den - b.num * a.den, a.den * b.den)

\* a * b
JSMul(a, b) ==
    IF a.nan \/ b.nan THEN NaN
    ELSE Frac(a.num * b.num, a.den * b.den)

\* a / b for b # 0 (the callers below never divide by zero)
JSDiv(a, b) ==
    IF a.nan \/ b.nan THEN NaN
    ELSE IF b.num < 0 THEN Frac(-(a.num * b.den), a.den * (-b.num))
    ELSE Frac(a.num * b.den, a.den * b.num)

\* Math.abs(a)
JSAbs(a) == IF a.nan THEN NaN ELSE [a EXCEPT !.num = Abs(a.num)]

\* a === n for an integer literal n; NaN equals nothing
StrictEq(a, n) == ~a.nan /\ a.num = n /\ a.den = 1

\* a || 0 on a number: NaN and 0 are falsy
OrZero(a) == IF a.nan THEN Num(0) ELSE a

(***************************************************************************)
(* percentChange (Overview)                                                *)
(***************************************************************************)
PercentChangeFromZero(current, prev) ==
    IF StrictEq(prev, 0) THEN Num(100)
    ELSE JSMul(JSDiv(JSSub(current, prev), JSAbs(prev)), Num(100))

PercentChangeSwapped(current, prev) ==
    IF StrictEq(prev, 0) /\ StrictEq(current, 0) THEN Num(0)
    ELSE IF StrictEq(prev, 0) THEN Num(100)
    ELSE JSMul(JSDiv(JSSub(prev, current), JSAbs(prev)), Num(100))

PercentChange(current, prev) ==
    IF StrictEq(prev, 0) /\ StrictEq(current, 0) THEN Num(0)
    ELSE IF StrictEq(prev, 0) THEN Num(100)
    ELSE JSMul(JSDiv(JSSub(current, prev), JSAbs(prev)), Num(100))

(***************************************************************************)
(* IEEE-754 binary64 values, as far as the budgets table needs them: the   *)
(* quotient of two non-negative integers, its product with an integer and  *)
(* the comparison of the result with an integer.  A finite non-zero value  *)
(* is sig * 2^(exp - 52), where exp is the exponent of the leading bit of  *)
(* the 53-bit significand sig.  The significand is held in five limbs,     *)
(* least significant first: four of LimbBits bits and the leading bit.     *)
(***************************************************************************)
LimbBits == 13

LimbBase == 2 ^ LimbBits

DNaN == [kind |-> "nan", exp |-> 0, sig |-> <<0, 0, 0, 0, 0>>]

DInf == [kind |-> "inf", exp |-> 0, sig |-> <<0, 0, 0, 0, 0>>]

DZero == [kind |-> "zero", exp |-> 0, sig |-> <<0, 0, 0, 0, 0>>]

\* sig + 1, the carry running through the limbs; the result may reach 2^53
Incr(sig) ==
    LET c1 == IF sig[1] + 1 = LimbBase THEN 1 ELSE 0
        c2 == IF sig[2] + c1 = LimbBase THEN 1 ELSE 0
        c3 == IF sig[3] + c2 = LimbBase THEN 1 ELSE 0
        c4 == IF sig[4] + c3 = LimbBase THEN 1 ELSE 0
    IN  <<(sig[1] + 1) % LimbBase, (sig[2] + c1) % LimbBase,
          (sig[3] + c2) % LimbBase, (sig[4] + c3) % LimbBase, sig[5] + c4>>

\* round to nearest, ties to even: kept is the significand before rounding,
\* guard the first bit dropped, sticky whether a later dropped bit is set
RoundNearestEven(kept, exp, guard, sticky) ==
    LET up == guard = 1 /\ (sticky \/ kept[1] % 2 = 1)
        r  == IF up THEN Incr(kept) ELSE kept
    IN  IF r[5] = 2
        THEN [kind |-> "fin", exp |-> exp + 1, sig |-> <<0, 0, 0, 0, 1>>]
        ELSE [kind |-> "fin", exp |-> exp, sig |-> r]

\* the least k with a * 2^k >= b, for 0 < a
RECURSIVE ShiftUp(_, _)
ShiftUp(a, b) == IF a >= b THEN 0 ELSE 1 + ShiftUp(2 * a, b)

\* the greatest k with b * 2^k <= a, for 0 < b <= a
RECURSIVE ShiftDown(_, _)
ShiftDown(a, b) == IF 2 * b > a THEN 0 ELSE 1 + ShiftDown(a, 2 * b)

\* a / b for integers 0 <= a, b < 2^17: long division, one limb at a time
DoubleDiv(a, b) ==
    IF b = 0 THEN (IF a = 0 THEN DNaN ELSE DInf)
    ELSE IF a = 0 THEN DZero
    ELSE LET up   == IF a >= b THEN 0 ELSE ShiftUp(a, b)
             down == IF a >= b THEN ShiftDown(a, b) ELSE 0
             A    == a * 2 ^ up
             B    == b * 2 ^ down
             r0   == A - B
             l4   == (r0 * LimbBase) \div B
             r1   == (r0 * LimbBase) % B
             l3   == (r1 * LimbBase) \div B
             r2   == (r1 * LimbBase) % B
             l2   == (r2 * LimbBase) \div B
             r3   == (r2 * LimbBase) % B
             l1   == (r3 * LimbBase) \div B
             r4   == (r3 * LimbBase) % B
         IN  RoundNearestEven(<<l1, l2, l3, l4, 1>>, down - up,
                              (2 * r4) \div B, (2 * r4) % B # 0)

\* the number of bits of n > 0
RECURSIVE BitLength(_)
BitLength(n) == IF n <= 1 THEN 1 ELSE 1 + BitLength(n \div 2)

\* x * c for an integer 0 < c < 2^13
DoubleMulInt(x, c) ==
    IF x.kind # "fin" THEN x
    ELSE LET v1 == x.sig[1] * c
             v2 == x.sig[2] * c + v1 \div LimbBase
             v3 == x.sig[3] * c + v2 \div LimbBase
             v4 == x.sig[4] * c + v3 \div LimbBase
             p  == <<v1 % LimbBase, v2 % LimbBase, v3 % LimbBase,
                     v4 % LimbBase, x.sig[5] * c + v4 \div LimbBase>>
             k  == BitLength(p[5]) - 1
             lo == 2 ^ k
             hi == 2 ^ (LimbBits - k)
         IN  IF k = 0 THEN [x EXCEPT !.sig = p]
             ELSE RoundNearestEven(
                      <<p[1] \div lo + (p[2] % lo) * hi,
                        p[2] \div lo + (p[3] % lo) * hi,
                        p[3] \div lo + (p[4] % lo) * hi,
                        p[4] \div lo + (p[5] % lo) * hi,
                        p[5] \div lo>>,
                      x.exp + k,
                      (p[1] \div 2 ^ (k - 1)) % 2,
                      p[1] % 2 ^ (k - 1) # 0)

\* the integer part of x, for 0 <= x.exp <= 30
DoubleFloor(x) ==
    LET cut == 4 * LimbBits - x.exp
        Part(i) ==
            LET o == LimbBits * (i - 1)
            IN  IF o >= cut THEN x.sig[i] * 2 ^ (o - cut)
                ELSE IF o + LimbBits > cut THEN x.sig[i] \div 2 ^ (cut - o)
                ELSE 0
    IN  Part(1) + Part(2) + Part(3) + Part(4) + Part(5)

\* whether x has a fractional part, for 0 <= x.exp <= 30
DoubleHasFraction(x) ==
    LET cut == 4 * LimbBits - x.exp
    IN  \E i \in 1..4 :
            LET o == LimbBits * (i - 1)
            IN  IF o + LimbBits <= cut THEN x.sig[i] # 0
                ELSE o < cut /\ x.sig[i] % 2 ^ (cut - o) # 0

\* x > t for an integer t >= 0 (finite x below 2^31)
DoubleGtInt(x, t) ==
    CASE x.kind = "nan"  -> FALSE
      [] x.kind = "inf"  -> TRUE
      [] x.kind = "zero" -> FALSE
      [] OTHER ->
            IF x.exp < 0 THEN t = 0
            ELSE DoubleFloor(x) > t
                 \/ (DoubleFloor(x) = t /\ DoubleHasFraction(x))

\* the limbs of value * 8, for a value below 2^62
TimesEight(sig) ==
    LET v1 == sig[1] * 8
        v2 == sig[2] * 8 + v1 \div LimbBase
        v3 == sig[3] * 8 + v2 \div LimbBase
        v4 == sig[4] * 8 + v3 \div LimbBase
    IN  <<v1 % LimbBase, v2 % LimbBase, v3 % LimbBase, v4 % LimbBase,
          sig[5] * 8 + v4 \div LimbBase>>

\* the limbs of floor(value / 2^d), d >= 0
ShiftRight(sig, d) ==
    LET q == d \div LimbBits
        r == d % LimbBits
        At(k) == IF k <= 5 THEN sig[k] ELSE 0
    IN  [j \in 1..5 |->
            At(j + q) \div 2 ^ r
                + (IF j = 5 THEN 0
                   ELSE (At(j + q + 1) % 2 ^ r) * 2 ^ (LimbBits - r))]

\* whether value / 2^d has a fractional part
ShiftLoses(sig, d) ==
    LET q == d \div LimbBits
        r == d % LimbBits
    IN  \/ \E k \in 1..5 : k <= q /\ sig[k] # 0
        \/ q < 5 /\ sig[q + 1] % 2 ^ r # 0

\* the limbs of a + b, the carry running through the limbs
AddLimbs(a, b) ==
    LET v1 == a[1] + b[1]
        v2 == a[2] + b[2] + v1 \div LimbBase
        v3 == a[3] + b[3] + v2 \div LimbBase
        v4 == a[4] + b[4] + v3 \div LimbBase
    IN  <<v1 % LimbBase, v2 % LimbBase, v3 % LimbBase, v4 % LimbBase,
          a[5] + b[5] + v4 \div LimbBase>>

\* x + y for x, y >= 0: the smaller operand is aligned to the greater with
\* three extra bits (guard, round and a sticky bit), the sum is normalised
\* and rounded to nearest even
DoubleAdd(x, y) ==
    IF x.kind = "nan" \/ y.kind = "nan" THEN DNaN
    ELSE IF x.kind = "inf" \/ y.kind = "inf" THEN DInf
    ELSE IF x.kind = "zero" THEN y
    ELSE IF y.kind = "zero" THEN x
    ELSE LET hi  == IF x.exp >= y.exp THEN x ELSE y
             lo  == IF x.exp >= y.exp THEN y ELSE x
             d   == hi.exp - lo.exp
             lo8 == TimesEight(lo.sig)
             al  == ShiftRight(lo8, d)
             st  == ShiftLoses(lo8, d)
             als == IF st /\ al[1] % 2 = 0 THEN [al EXCEPT ![1] = @ + 1]
                    ELSE al
             t   == AddLimbs(TimesEight(hi.sig), als)
             c   == IF t[5] >= 16 THEN 1 ELSE 0
             low == t[1] % 2 ^ (3 + c)
         IN  RoundNearestEven(ShiftRight(t, 3 + c), hi.exp + c,
                              low \div 2 ^ (2 + c),
                              low % 2 ^ (2 + c) # 0)

(***************************************************************************)
(* Records as the API returns them.  An amount arrives as a number (or a   *)
(* numeric string, which converts to the same number), as text that is no  *)
(* number ("abc"), as a number followed by text ("12abc") or as null.  A   *)
(* date is held by the calendar fields `new Date(record.date)` has in the  *)
(* browser's time zone: the full year and the month index 0..11.           *)
(***************************************************************************)
Amount(n) == [kind |-> "number", val |-> n]

\* Number(amount)
Number(a) ==
    CASE a.kind = "number" -> Num(a.val)
      [] a.kind = "null"   -> Num(0)
      [] OTHER             -> NaN

\* parseFloat(amount)
ParseFloat(a) ==
    CASE a.kind = "number"   -> Num(a.val)
      [] a.kind = "prefixed" -> Num(a.val)
      [] OTHER               -> NaN

\* a month index outside 0..11 wrapped around without touching the year
NewDateSameYear(year, monthIndex) ==
    [year |-> year, month |-> monthIndex % 12]

\* new Date(year, monthIndex, 1): a month index outside 0..11 carries into
\* the year
NewDate(year, monthIndex) ==
    [year |-> year + monthIndex \div 12, month |-> monthIndex % 12]

MONTH_SHORT ==
    <<"Jan", "Feb", "Mar", "Apr", "May", "Jun",
      "Jul", "Aug", "Sep", "Oct", "Nov", "Dec">>

\* date.toLocaleDateString("en-US", { month: "short" })
MonthName(date) == MONTH_SHORT[date.month + 1]

\* expense.category.name without the fallback
CategoryNameAsIs(item, fallback) == item.category

\* expense.category?.name || fallback: the name is missing when the record
\* has no category, and an empty name is falsy as well
CategoryName(item, fallback) ==
    IF item.hasCategory /\ item.category # "" THEN item.category ELSE fallback

\* the reduce with the accumulator dropped: the last amount alone
SumNumberLast(items) ==
    IF items = <<>> THEN Num(0) ELSE Number(items[Len(items)].amount)

\* items.reduce((sum, item) => Number(sum) + Number(item.amount), 0)
RECURSIVE SumNumber(_)
SumNumber(items) ==
    IF items = <<>> THEN Num(0)
    ELSE JSAdd(SumNumber(SubSeq(items, 1, Len(items) - 1)),
               Number(items[Len(items)].amount))

\* items.reduce((sum, item) => sum + (parseFloat(item.amount) || 0), 0)
RECURSIVE SumParseFloat(_)
SumParseFloat(items) ==
    IF items = <<>> THEN Num(0)
    ELSE JSAdd(SumParseFloat(SubSeq(items, 1, Len(items) - 1)),
               OrZero(ParseFloat(items[Len(items)].amount)))

\* Number(amount) of an amount with decimals, given in hundredths: the
\* binary64 value nearest to it
DecimalNumber(a) ==
    CASE a.kind = "number" -> DoubleDiv(a.val, 100)
      [] a.kind = "null"   -> DZero
      [] OTHER             -> DNaN

\* items.reduce((sum, item) => Number(sum) + Number(item.amount), 0) at
\* binary64 precision
RECURSIVE SumDecimal(_)
SumDecimal(items) ==
    IF items = <<>> THEN DZero
    ELSE DoubleAdd(SumDecimal(SubSeq(items, 1, Len(items) - 1)),
                   DecimalNumber(items[Len(items)].amount))

\* totalExpenses, totalIncome and netSavings's operands over amounts with
\* decimals
DecimalTotals(allExpenses, allDeposits) ==
    [totalExpenses |-> SumDecimal(allExpenses),
     totalIncome   |-> SumDecimal(allDeposits)]

\* the date test with the year forgotten
InMonthOfAnyYear(item, month, year) ==
    item.date.month = month

\* the date test of sumForMonth, thisMonthExpenses and the trend loop
InMonth(item, month, year) ==
    item.date.month = month /\ item.date.year = year

(***************************************************************************)
(* Overview page                                                           *)
(***************************************************************************)
NumColors == 6

\* the sum with the date test left out
SumForMonthUnfiltered(items, month, year) == SumNumber(items)

\* sumForMonth(items, "date", month, year)
SumForMonth(items, month, year) ==
    LET Pred(item) == InMonth(item, month, year)
    IN  SumNumber(SelectSeq(items, Pred))

\* allExpenses.reduce((acc, expense) => ..., {}): the object's entries in
\* the order their keys were inserted
RECURSIVE ExpensesByCategory(_)
ExpensesByCategory(items) ==
    IF items = <<>> THEN <<>>
    ELSE LET acc  == ExpensesByCategory(SubSeq(items, 1, Len(items) - 1))
             e    == items[Len(items)]
             name == CategoryName(e, "Other")
             add  == [category |-> name, amount |-> Num(0), count |-> 0]
             all  == IF \E i \in 1..Len(acc) : acc[i].category = name
                     THEN acc ELSE Append(acc, add)
         IN  [i \in 1..Len(all) |->
                 IF all[i].category = name
                 THEN [all[i] EXCEPT !.amount = JSAdd(@, Number(e.amount)),
                                     !.count = @ + 1]
                 ELSE all[i]]

\* Object.values(expensesByCategory).map((cat, index) => ...)
ExpenseCategories(byCategory) ==
    [i \in 1..Len(byCategory) |->
        [name  |-> byCategory[i].category,
         value |-> byCategory[i].amount,
         color |-> (i - 1) % NumColors]]

\* the trend loop: for (let i = 5; i >= 0; i--) monthlyTrend.push(...)
MonthlyTrend(allExpenses, allDeposits, today) ==
    [k \in 1..6 |->
        LET month == NewDate(today.year, today.month - (6 - k))
        IN  [month    |-> MonthName(month),
             expenses |-> SumForMonth(allExpenses, month.month, month.year),
             deposits |-> SumForMonth(allDeposits, month.month, month.year)]]

Overview(allExpenses, allDeposits, today) ==
    LET totalExpenses == SumNumber(allExpenses)
        totalIncome   == SumNumber(allDeposits)
        byCategory    == ExpensesByCategory(allExpenses)
        currentMonth  == today.month
        currentYear   == today.year
        prevMonthDate == NewDate(currentYear, currentMonth - 1)
        prevMonth     == prevMonthDate.month
        prevYear      == prevMonthDate.year
        incomeThisMonth   == SumForMonth(allDeposits, currentMonth, currentYear)
        incomeLastMonth   == SumForMonth(allDeposits, prevMonth, prevYear)
        expensesThisMonth == SumForMonth(allExpenses, currentMonth, currentYear)
        expensesLastMonth == SumForMonth(allExpenses, prevMonth, prevYear)
    IN  [totalExpenses      |-> totalExpenses,
         totalIncome        |-> totalIncome,
         netSavings         |-> JSSub(totalIncome, totalExpenses),
         expensesByCategory |-> byCategory,
         expenseCategories  |-> ExpenseCategories(byCategory),
         incomeThisMonth    |-> incomeThisMonth,
         incomeLastMonth    |-> incomeLastMonth,
         expensesThisMonth  |-> expensesThisMonth,
         expensesLastMonth  |-> expensesLastMonth,
         incomeChange       |-> PercentChange(incomeThisMonth, incomeLastMonth),
         expensesChange     |-> PercentChange(expensesThisMonth,
                                              expensesLastMonth),
         monthlyTrend       |-> MonthlyTrend(allExpenses, allDeposits, today)]

\* a query of the overview: pending, answered, or failed with an error
Loading == [status |-> "loading", message |-> ""]

Succeeded == [status |-> "success", message |-> ""]

Failed(message) == [status |-> "error", message |-> message]

\* isLoading = expensesLoading || depositsLoading
IsLoading(expensesQ, depositsQ) ==
    expensesQ.status = "loading" \/ depositsQ.status = "loading"

HasExpensesError(expensesQ, depositsQ) == expensesQ.status = "error"

\* hasError = expensesError || depositsError
HasError(expensesQ, depositsQ) ==
    expensesQ.status = "error" \/ depositsQ.status = "error"

\* expensesError?.message || depositsError?.message || "Failed to load ..."
ErrorMessage(expensesQ, depositsQ) ==
    IF expensesQ.status = "error" /\ expensesQ.message # ""
    THEN expensesQ.message
    ELSE IF depositsQ.status = "error" /\ depositsQ.message # ""
    THEN depositsQ.message
    ELSE "Failed to load dashboard data"

\* which of its three views the overview returns: the spinner, the error
\* view with the retry button, or the dashboard
OverviewPage(expensesQ, depositsQ) ==
    IF IsLoading(expensesQ, depositsQ) THEN "loading"
    ELSE IF HasError(expensesQ, depositsQ) THEN "error"
    ELSE "overview"

OverviewOut(expensesQ, depositsQ, allExpenses, allDeposits, today) ==
    IF IsLoading(expensesQ, depositsQ) THEN [spinner |-> TRUE]
    ELSE IF HasError(expensesQ, depositsQ)
    THEN [message |-> ErrorMessage(expensesQ, depositsQ), retry |-> TRUE]
    ELSE Overview(allExpenses, allDeposits, today)

\* the queryFn of a query: the error it throws, or the list it returns
QueryResult(hasToken, hasUserId, reply) ==
    IF ~hasToken THEN Failed("No authentication token")
    ELSE IF ~hasUserId THEN Failed("No user ID found")
    ELSE IF reply.status = "ok" THEN Succeeded
    ELSE Failed(reply.message)

\* parseInt(e.target.value) of a number input
ParseInt(a) ==
    CASE a.kind = "number" -> Num(a.val)
      [] OTHER             -> NaN

\* x || fallback, for a whole number x
OrElse(a, fallback) == IF a.nan \/ a.num = 0 THEN fallback ELSE a.num

\* the fields resetForm and the initial useState give the form
ResetFormData(today) ==
    [month |-> today.month, year |-> today.year, amountLimit |-> 0,
     thresholdPercentage |-> 80]

NoRequest ==
    [sent |-> FALSE, data |-> ResetFormData([year |-> 0, month |-> 1]),
     api |-> "none", status |-> "idle"]

\* mutationFn: a budget being edited is updated, otherwise one is created
MutationFn(editing, data) ==
    [sent |-> TRUE, data |-> data,
     api |-> IF editing # 0 THEN "update" ELSE "create", status |-> "pending"]

\* the query keys onSuccess invalidates
BudgetQueries == {"budgets", "budget-summary"}

\* the constraints the inputs of the form declare (min="0" on the amount,
\* min="1" max="100" on the threshold): the browser raises the submit
\* event only when every input satisfies them
FormValid(data) ==
    /\ data.amountLimit >= 0
    /\ data.thresholdPercentage >= 1
    /\ data.thresholdPercentage <= 100

(***************************************************************************)
(* The session.  localStorage holds or lacks the items 'token' and 'user'. *)
(***************************************************************************)
Storages == [token : BOOLEAN, user : BOOLEAN]

Cleared == [token |-> FALSE, user |-> FALSE]

Stored == [token |-> TRUE, user |-> TRUE]

\* HTTP status of an answer; 0 stands for no answer (a transport error)
Codes == {200, 401, 500, 0}

NoCall == [caller |-> "none", status |-> "none", code |-> 0, bearer |-> FALSE]

\* the response interceptor clearing localStorage after any failure
InterceptedOnAnyError(items, code) == IF code # 200 THEN Cleared ELSE items

\* the response interceptor: localStorage after an answer with this status
Intercepted(items, code) == IF code = 401 THEN Cleared ELSE items

\* the response interceptor: the path it assigns to window.location.href
Redirected(current, code) == IF code = 401 THEN "/login" ELSE current

\* ProtectedRoute with the flags it starts with, and with those it ends
\* with after a successful check
RouteMounted == [pc |-> "mounted", isAuthenticated |-> "null",
                 isLoading |-> TRUE]

RouteChild == [pc |-> "doneResolved", isAuthenticated |-> "true",
               isLoading |-> FALSE]

NoRoute == [pc |-> "unmounted", isAuthenticated |-> "null", isLoading |-> TRUE]

\* what ProtectedRoute returns, with the test of isLoading left out
RouteViewWithoutSpinner(r) ==
    IF r.pc = "unmounted" THEN "none"
    ELSE IF r.isAuthenticated # "true" THEN "redirect"
    ELSE "child"

\* what ProtectedRoute returns: the spinner, <Navigate to="/login">, or
\* its children
RouteView(r) ==
    IF r.pc = "unmounted" THEN "none"
    ELSE IF r.isLoading THEN "spinner"
    ELSE IF r.isAuthenticated # "true" THEN "redirect"
    ELSE "child"

\* the Login or Register page as it is mounted
SignInPage(name) ==
    [page |-> name, pc |-> "idle", error |-> "", isLoading |-> FALSE]

NoSignIn == SignInPage("none")

(***************************************************************************)
(* Strings of the search boxes.  toLowerCase and includes are tabulated on *)
(* the strings the model uses.                                             *)
(***************************************************************************)
\* s.toLowerCase()
ToLowerCase(s) ==
    CASE s = "Food"          -> "food"
      [] s = "Rent"          -> "rent"
      [] s = "Other"         -> "other"
      [] s = "Uncategorized" -> "uncategorized"
      [] s = "Salary"        -> "salary"
      [] s = "Foo"           -> "foo"
      [] s = "January"       -> "january"
      [] s = "February"      -> "february"
      [] s = "March"         -> "march"
      [] s = "April"         -> "april"
      [] s = "May"           -> "may"
      [] s = "June"          -> "june"
      [] s = "July"          -> "july"
      [] s = "August"        -> "august"
      [] s = "September"     -> "september"
      [] s = "October"       -> "october"
      [] s = "November"      -> "november"
      [] s = "December"      -> "december"
      [] OTHER               -> s

\* s.includes(t), for lower-case s and t: every string includes "", and of
\* the model's strings only "food" and "seafood" include "foo"
Includes(s, t) == t = "" \/ s = t \/ (t = "foo" /\ s \in {"food", "seafood"})

(***************************************************************************)
(* Reports page, analytics tab                                             *)
(***************************************************************************)
\* expenses.reduce((acc, e) => { acc[name] = (acc[name] || 0) + ... }, {}):
\* the object's entries in the order their keys were inserted
RECURSIVE CategoryBreakdown(_)
CategoryBreakdown(items) ==
    IF items = <<>> THEN <<>>
    ELSE LET acc  == CategoryBreakdown(SubSeq(items, 1, Len(items) - 1))
             e    == items[Len(items)]
             name == CategoryName(e, "Uncategorized")
             all  == IF \E i \in 1..Len(acc) : acc[i].category = name
                     THEN acc
                     ELSE Append(acc, [category |-> name, amount |-> Num(0)])
         IN  [i \in 1..Len(all) |->
                 IF all[i].category = name
                 THEN [all[i] EXCEPT
                          !.amount = JSAdd(OrZero(@),
                                           OrZero(ParseFloat(e.amount)))]
                 ELSE all[i]]

\* dayjs(expense.date).format("YYYY-MM"): the year and the month 01..12
FormatYearMonth(date) == [year |-> date.year, month |-> date.month + 1]

\* new Date(key).getTime() of a "YYYY-MM" key, counted in months
KeyTime(key) == key.year * 12 + (key.month - 1)

\* expenses.reduce((acc, e) => { acc[month] = (acc[month] || 0) + ... }, {})
RECURSIVE MonthlyData(_)
MonthlyData(items) ==
    IF items = <<>> THEN <<>>
    ELSE LET acc == MonthlyData(SubSeq(items, 1, Len(items) - 1))
             e   == items[Len(items)]
             key == FormatYearMonth(e.date)
             all == IF \E i \in 1..Len(acc) : acc[i].month = key
                    THEN acc
                    ELSE Append(acc, [month |-> key, amount |-> Num(0)])
         IN  [i \in 1..Len(all) |->
                 IF all[i].month = key
                 THEN [all[i] EXCEPT
                          !.amount = JSAdd(OrZero(@),
                                           OrZero(ParseFloat(e.amount)))]
                 ELSE all[i]]

\* entries.sort((a, b) => key(b) - key(a)): Array.prototype.sort is stable,
\* so an entry is preceded by the entries of greater key and by the earlier
\* entries of equal key
SortDescending(entries, key) ==
    LET n == Len(entries)
        Rank(i) ==
            1 + Cardinality({j \in 1..n : key[j] > key[i]})
              + Cardinality({j \in 1..(i - 1) : key[j] = key[i]})
    IN  [r \in 1..n |-> entries[CHOOSE i \in 1..n : Rank(i) = r]]

\* Object.entries(categoryBreakdown).sort(([, a], [, b]) => b - a).map(...)
CategoryRanking(breakdown, totalExpenses) ==
    LET byAmount == [i \in 1..Len(breakdown) |-> breakdown[i].amount.num]
        sorted   == SortDescending(breakdown, byAmount)
    IN  [i \in 1..Len(sorted) |->
            [category   |-> sorted[i].category,
             amount     |-> sorted[i].amount,
             percentage |-> IF totalExpenses.num > 0
                            THEN JSMul(JSDiv(sorted[i].amount, totalExpenses),
                                       Num(100))
                            ELSE Num(0)]]

\* Object.entries(monthlyData).sort(...newest first...).slice(0, 6)
MonthlyRows(monthlyData) ==
    LET byTime == [i \in 1..Len(monthlyData) |-> KeyTime(monthlyData[i].month)]
        sorted == SortDescending(monthlyData, byTime)
    IN  SubSeq(sorted, 1, IF Len(sorted) < 6 THEN Len(sorted) ELSE 6)

Reports(allExpenses, allDeposits) ==
    LET totalExpenses == SumParseFloat(allExpenses)
        totalDeposits == SumParseFloat(allDeposits)
        breakdown     == CategoryBreakdown(allExpenses)
        monthlyData   == MonthlyData(allExpenses)
    IN  [totalExpenses     |-> totalExpenses,
         totalDeposits     |-> totalDeposits,
         netFlow           |-> JSSub(totalDeposits, totalExpenses),
         categoryBreakdown |-> breakdown,
         categoryRanking   |-> CategoryRanking(breakdown, totalExpenses),
         monthlyData       |-> monthlyData,
         monthlyRows       |-> MonthlyRows(monthlyData)]

(***************************************************************************)
(* Expenses page and Deposits page                                         *)
(***************************************************************************)
\* the filter of filteredExpenses
ExpenseMatches(expense, term) ==
    \/ term = ""
    \/ expense.hasNote
       /\ Includes(ToLowerCase(expense.note), ToLowerCase(term))
    \/ expense.hasCategory
       /\ Includes(ToLowerCase(expense.category), ToLowerCase(term))

\* the filter of filteredDeposits: no shortcut for an empty search term
DepositMatches(deposit, term) ==
    \/ deposit.hasNote
       /\ Includes(ToLowerCase(deposit.note), ToLowerCase(term))
    \/ deposit.hasCategory
       /\ Includes(ToLowerCase(deposit.category), ToLowerCase(term))

\* thisMonthExpenses / thisMonthDeposits: the clock is read in the filter
ThisMonth(items, today) ==
    LET Pred(item) == InMonth(item, today.month, today.year)
    IN  SelectSeq(items, Pred)

ExpensesPage(allExpenses, term, today) ==
    LET Pred(expense) == ExpenseMatches(expense, term)
        filteredExpenses  == SelectSeq(allExpenses, Pred)
        thisMonthExpenses == ThisMonth(filteredExpenses, today)
    IN  [filtered       |-> filteredExpenses,
         total          |-> SumNumber(filteredExpenses),
         thisMonth      |-> thisMonthExpenses,
         thisMonthTotal |-> SumNumber(thisMonthExpenses)]

DepositsPage(allDeposits, term, today) ==
    LET Pred(deposit) == DepositMatches(deposit, term)
        filteredDeposits  == SelectSeq(allDeposits, Pred)
        thisMonthDeposits == ThisMonth(filteredDeposits, today)
    IN  [filtered       |-> filteredDeposits,
         total          |-> SumNumber(filteredDeposits),
         thisMonth      |-> thisMonthDeposits,
         thisMonthTotal |-> SumNumber(thisMonthDeposits)]

(***************************************************************************)
(* Budgets page                                                            *)
(***************************************************************************)
MONTHS ==
    <<"January", "February", "March", "April", "May", "June", "July",
      "August", "September", "October", "November", "December">>

\* budget.amountLimit.toString().includes(searchTerm): the digits of a
\* number include the empty string and none of the model's search terms
LimitIncludes(amountLimit, term) == term = ""

\* budgets.filter(...) of filteredBudgets
FilteredBudgets(all, year, term) ==
    LET Pred(budget) ==
            /\ budget.year = year
            /\ \/ Includes(ToLowerCase(MONTHS[budget.month]),
                           ToLowerCase(term))
               \/ LimitIncludes(budget.amountLimit, term)
    IN  SelectSeq(all, Pred)

\* (budget.spentAmount / budget.amountLimit) * 100
UsagePercentage(budget) ==
    DoubleMulInt(DoubleDiv(budget.spentAmount, budget.amountLimit), 100)

\* the colour of the usage cell of a table row
RowUsageClass(budget) ==
    LET usagePercentage == UsagePercentage(budget)
        isOverBudget    == DoubleGtInt(usagePercentage, 100)
        isNearLimit     == DoubleGtInt(usagePercentage,
                                       budget.thresholdPercentage)
    IN  IF isOverBudget THEN "text-danger-600"
        ELSE IF isNearLimit THEN "text-warning-600"
        ELSE "text-success-600"

\* one row of the budgets table
BudgetRow(budget) ==
    LET usagePercentage == UsagePercentage(budget)
        isOverBudget    == DoubleGtInt(usagePercentage, 100)
        isNearLimit     == DoubleGtInt(usagePercentage,
                                       budget.thresholdPercentage)
    IN  [budget          |-> budget,
         usagePercentage |-> usagePercentage,
         remaining       |-> IF budget.amountLimit - budget.spentAmount > 0
                             THEN budget.amountLimit - budget.spentAmount
                             ELSE 0,
         usageClass      |-> RowUsageClass(budget),
         alertIcon       |-> isOverBudget \/ isNearLimit]

\* the colour of the usage card of the current budget
CardUsageClass(spendingPercentage) ==
    IF spendingPercentage > 100 THEN "text-danger-600"
    ELSE IF spendingPercentage > 80 THEN "text-warning-600"
    ELSE "text-success-600"

\* budgetSummary is null until the summary query has answered, and its
\* currentBudget is null when the period has no budget
NoBudget ==
    [id |-> 0, month |-> 1, year |-> 0, amountLimit |-> 0, spentAmount |-> 0,
     thresholdPercentage |-> 0]

NoSummary ==
    [present |-> FALSE, hasCurrent |-> FALSE, currentBudget |-> NoBudget,
     totalSpent |-> 0, remainingBudget |-> 0, spendingPercentage |-> 0]

BudgetsPageCardsAlways(all, summary, year, term) ==
    LET filteredBudgets    == FilteredBudgets(all, year, term)
        totalSpent         == IF summary.present THEN summary.totalSpent ELSE 0
        remainingBudget    == IF summary.present
                              THEN summary.remainingBudget ELSE 0
        spendingPercentage == IF summary.present
                              THEN summary.spendingPercentage ELSE 0
    IN  [rows               |-> [i \in 1..Len(filteredBudgets) |->
                                    BudgetRow(filteredBudgets[i])],
         showCurrent        |-> summary.present,
         totalSpent         |-> totalSpent,
         remainingBudget    |-> remainingBudget,
         spendingPercentage |-> spendingPercentage,
         cardUsageClass     |-> CardUsageClass(spendingPercentage)]

BudgetsPage(all, summary, year, term) ==
    LET filteredBudgets    == FilteredBudgets(all, year, term)
        hasCurrent         == summary.present /\ summary.hasCurrent
        totalSpent         == IF summary.present THEN summary.totalSpent ELSE 0
        remainingBudget    == IF summary.present
                              THEN summary.remainingBudget ELSE 0
        spendingPercentage == IF summary.present
                              THEN summary.spendingPercentage ELSE 0
    IN  [rows               |-> [i \in 1..Len(filteredBudgets) |->
                                    BudgetRow(filteredBudgets[i])],
         showCurrent        |-> hasCurrent,
         totalSpent         |-> totalSpent,
         remainingBudget    |-> remainingBudget,
         spendingPercentage |-> spendingPercentage,
         cardUsageClass     |-> CardUsageClass(spendingPercentage)]

(***************************************************************************)
(* Inputs.  Every list is what a query may have returned: any sequence of  *)
(* records, up to a length bound.                                          *)
(***************************************************************************)
MaxOperand == 100
MaxTotalsLen == 2
MaxTotalsDeposits == 1
MaxCategoryLen == 3
MaxMonthLen == 2
MaxMonthDeposits == 1
MaxBudgets == 1
MaxDecimalLen == 3
MaxDecimalDeposits == 1
MaxClockMonths == 1
MaxFrameLen == 2
MaxFrameDeposits == 1
MaxFrameBudgets == 1

MaxFetchLen == 2

MaxFetchDeposits == 2

MaxCalls == 4

\* every sequence over S of length 0..n
SeqUpTo(S, n) == UNION {[1..k -> S] : k \in 0..n}

Date(year, month) == [year |-> year, month |-> month]

Transaction(amount, date, hasCategory, category, hasNote, note) ==
    [amount |-> amount, date |-> date, hasCategory |-> hasCategory,
     category |-> category, hasNote |-> hasNote, note |-> note]

NoOperands == [current |-> 0, prev |-> 0]

Today == Date(2024, 5)

\* amounts as the API may return them
RawAmounts ==
    {Amount(5), Amount(10), [kind |-> "text", val |-> 0],
     [kind |-> "prefixed", val |-> 12], [kind |-> "null", val |-> 0]}

\* totals: the amounts vary, well-formed or not, and so does what the
\* search box matches
TotalsExpenses ==
    {Transaction(a, Today, TRUE, c, FALSE, "") :
        a \in RawAmounts, c \in {"Food", "Rent"}}

TotalsDeposits ==
    {Transaction(a, Today, TRUE, "Salary", TRUE, "") : a \in RawAmounts}

\* categories: named, named like a fallback label, or missing
CategoryExpenses ==
    {Transaction(Amount(a), Today, c # "", c, FALSE, "") :
        a \in {5, 10, 20}, c \in {"Food", "Other", "Uncategorized", ""}}

\* months: inside and outside the six-month window, across the year's end
MonthDates ==
    {Date(2023, 0), Date(2023, 6), Date(2023, 7), Date(2023, 11),
     Date(2024, 0), Date(2024, 5)}

MonthExpenses ==
    {Transaction(Amount(a), d, TRUE, "Food", FALSE, "") :
        a \in {5, 10}, d \in MonthDates}

MonthDeposits ==
    {Transaction(Amount(7), d, TRUE, "Salary", FALSE, "") :
        d \in {Date(2023, 11), Date(2024, 0)}}

MonthClocks == {Date(2024, 0), Date(2024, 5)}

\* budgets: the limit may be zero; the spent amounts lie around the
\* thresholds and the limits
Budget(year, limit, spent, threshold) ==
    [id |-> 1, month |-> 1, year |-> year, amountLimit |-> limit,
     spentAmount |-> spent, thresholdPercentage |-> threshold]

BudgetSet ==
    {Budget(y, l, sp, t) :
        y \in {2024, 2025}, l \in {0, 20, 100},
        sp \in {0, 7, 11, 80, 81, 100, 101}, t \in {7, 55, 80}}

\* summaries of an honest source: the percentage is totalSpent / limit * 100
Summaries ==
    {NoSummary} \cup
    {[present |-> TRUE, hasCurrent |-> h,
      currentBudget |-> Budget(2024, 100, sp, t), totalSpent |-> sp,
      remainingBudget |-> IF sp < 100 THEN 100 - sp ELSE 0,
      spendingPercentage |-> sp] :
        h \in BOOLEAN, sp \in {0, 60, 80, 81, 100, 101}, t \in {55, 80}}

\* amounts with decimals, in hundredths: 0.10, 0.20, 0.30 and 1.00
DecimalExpenses ==
    {Transaction(Amount(a), Today, TRUE, "Food", FALSE, "") :
        a \in {10, 20, 30, 100}}

DecimalDeposits ==
    {Transaction(Amount(a), Today, TRUE, "Salary", FALSE, "") :
        a \in {10, 70}}

\* expenses, deposits and budgets side by side: equal and different
\* amounts, two categories, two months
FrameExpenses ==
    {Transaction(Amount(a), Date(2024, 5), TRUE, c, FALSE, "") :
        a \in {5, 10}, c \in {"Food", "Other"}}
    \cup {Transaction(Amount(5), Date(2023, 11), TRUE, "Food", FALSE, "")}

\* deposits with a type and no note, and one with neither
FrameDeposits ==
    MonthDeposits
        \cup {Transaction(Amount(7), Date(2024, 5), FALSE, "", FALSE, "")}

FrameBudgets == {Budget(2024, 100, 81, 80), Budget(2024, 20, 11, 55)}

FrameSummaries ==
    {NoSummary,
     [present |-> TRUE, hasCurrent |-> TRUE,
      currentBudget |-> Budget(2024, 100, 81, 80), totalSpent |-> 81,
      remainingBudget |-> 19, spendingPercentage |-> 81]}

\* the budgets the Edit buttons of the form's page can load into the form
FormBudgets == {Budget(2024, 100, 81, 80), Budget(2024, 20, 11, 55)}

\* the options of the month and year selects that are picked
FormMonths == {1, 12}

FormYears == {Today.year, Today.year + 4}

\* what is typed into the amount and threshold inputs: nothing, or a number
AmountTexts ==
    {[kind |-> "text", val |-> 0], Amount(-5), Amount(0), Amount(20),
     Amount(100)}

ThresholdTexts ==
    {[kind |-> "text", val |-> 0], Amount(-5), Amount(0), Amount(1),
     Amount(100), Amount(101)}

\* the routes of the budgets and the expenses page
BudgetsPath == "/dashboard/budgets"

ExpensesPath == "/dashboard/expenses"

\* the ids the backend gives the recurring expenses it creates
RecurringIds == {7, 9}

\* the expense form as useState and resetForm leave it
ResetExpenseForm == [filled |-> FALSE, isRecurring |-> FALSE]

NotSaving == [pc |-> "idle", formData |-> ResetExpenseForm,
              recurringExpenseId |-> 0]

ExpenseFormClosed ==
    /\ expensesPage = [isModalOpen |-> FALSE, editingExpense |-> 0,
                       formData |-> ResetExpenseForm, loading |-> FALSE,
                       invalidated |-> FALSE]
    /\ saving = NotSaving
    /\ calls = <<>>

\* a signed-in user on a dashboard page, the check of the route passed
SignedIn ==
    /\ storage = Stored /\ location = "/dashboard" /\ href = ""
    /\ request = NoCall /\ route = RouteChild /\ signIn = NoSignIn

\* the form before a budget is sent
FormClosed ==
    /\ formData = ResetFormData(Today)
    /\ isModalOpen = FALSE
    /\ isPending = FALSE
    /\ lastRequest = NoRequest
    /\ editingBudget = 0
    /\ inFlight = 0
    /\ invalidated = {}

\* what the backend answers to GET /expenses/user/:id and to
\* GET /deposits/user/:id: a list (or no body), a transport error, or 401
FetchedExpenses ==
    {Transaction(Amount(5), Today, TRUE, "Food", FALSE, ""),
     Transaction(Amount(10), Date(2024, 4), FALSE, "", FALSE, "")}

FetchedDeposits ==
    {Transaction(Amount(7), Today, FALSE, "", TRUE, "Salary"),
     Transaction(Amount(5), Date(2024, 4), FALSE, "", FALSE, "")}

Replies(records, maxLen) ==
    {[status |-> "ok", hasData |-> TRUE, data |-> d, message |-> ""] :
        d \in SeqUpTo(records, maxLen)}
    \cup {[status |-> "ok", hasData |-> FALSE, data |-> <<>>, message |-> ""],
          [status |-> "error", hasData |-> FALSE, data |-> <<>>,
           message |-> "Network Error"],
          [status |-> "unauthorized", hasData |-> FALSE, data |-> <<>>,
           message |-> "Request failed with status code 401"]}

Idle ==
    /\ page = "none"
    /\ out = [none |-> TRUE]

InitPercent ==
    /\ operands \in [current : (-MaxOperand)..MaxOperand,
                     prev : (-MaxOperand)..MaxOperand]
    /\ expenses = <<>> /\ deposits = <<>>
    /\ now = Today /\ searchTerm = ""
    /\ budgets = <<>> /\ budgetSummary = NoSummary /\ selectedYear = Today.year
    /\ expensesQuery = Succeeded /\ depositsQuery = Succeeded
    /\ FormClosed
    /\ ExpenseFormClosed
    /\ SignedIn
    /\ Idle

InitTotals ==
    /\ operands = NoOperands
    /\ expenses \in SeqUpTo(TotalsExpenses, MaxTotalsLen)
    /\ deposits \in SeqUpTo(TotalsDeposits, MaxTotalsDeposits)
    /\ now = Today /\ searchTerm \in {"", "Foo"}
    /\ budgets = <<>> /\ budgetSummary = NoSummary /\ selectedYear = Today.year
    /\ expensesQuery = Succeeded /\ depositsQuery = Succeeded
    /\ FormClosed
    /\ ExpenseFormClosed
    /\ SignedIn
    /\ Idle

InitCategory ==
    /\ operands = NoOperands
    /\ expenses \in SeqUpTo(CategoryExpenses, MaxCategoryLen)
    /\ deposits = <<>>
    /\ now = Today /\ searchTerm = ""
    /\ budgets = <<>> /\ budgetSummary = NoSummary /\ selectedYear = Today.year
    /\ expensesQuery = Succeeded /\ depositsQuery = Succeeded
    /\ FormClosed
    /\ ExpenseFormClosed
    /\ SignedIn
    /\ Idle

InitMonth ==
    /\ operands = NoOperands
    /\ expenses \in SeqUpTo(MonthExpenses, MaxMonthLen)
    /\ deposits \in SeqUpTo(MonthDeposits, MaxMonthDeposits)
    /\ now \in MonthClocks /\ searchTerm = ""
    /\ budgets = <<>> /\ budgetSummary = NoSummary /\ selectedYear = now.year
    /\ expensesQuery = Succeeded /\ depositsQuery = Succeeded
    /\ FormClosed
    /\ ExpenseFormClosed
    /\ SignedIn
    /\ Idle

InitBudgets ==
    /\ operands = NoOperands
    /\ expenses = <<>> /\ deposits = <<>>
    /\ now = Today /\ searchTerm = ""
    /\ budgets \in SeqUpTo(BudgetSet, MaxBudgets)
    /\ budgetSummary \in Summaries
    /\ selectedYear = Today.year
    /\ expensesQuery = Succeeded /\ depositsQuery = Succeeded
    /\ FormClosed
    /\ ExpenseFormClosed
    /\ SignedIn
    /\ Idle

InitDecimal ==
    /\ operands = NoOperands
    /\ expenses \in SeqUpTo(DecimalExpenses, MaxDecimalLen)
    /\ deposits \in SeqUpTo(DecimalDeposits, MaxDecimalDeposits)
    /\ now = Today /\ searchTerm = ""
    /\ budgets = <<>> /\ budgetSummary = NoSummary /\ selectedYear = Today.year
    /\ expensesQuery = Succeeded /\ depositsQuery = Succeeded
    /\ FormClosed
    /\ ExpenseFormClosed
    /\ SignedIn
    /\ Idle

InitFrame ==
    /\ operands = NoOperands
    /\ expenses \in SeqUpTo(FrameExpenses, MaxFrameLen)
    /\ deposits \in SeqUpTo(FrameDeposits, MaxFrameDeposits)
    /\ now = Today /\ searchTerm = ""
    /\ budgets \in SeqUpTo(FrameBudgets, MaxFrameBudgets)
    /\ budgetSummary \in FrameSummaries
    /\ selectedYear = Today.year
    /\ expensesQuery = Succeeded /\ depositsQuery = Succeeded
    /\ FormClosed
    /\ ExpenseFormClosed
    /\ SignedIn
    /\ Idle

\* the overview is mounted: both queries are pending and their data
\* default to the empty list
InitFetch ==
    /\ operands = NoOperands
    /\ expenses = <<>> /\ deposits = <<>>
    /\ now = Today /\ searchTerm = ""
    /\ budgets = <<>> /\ budgetSummary = NoSummary
    /\ selectedYear = Today.year
    /\ expensesQuery = Loading /\ depositsQuery = Loading
    /\ FormClosed
    /\ ExpenseFormClosed
    /\ storage \in Storages /\ location = "/dashboard" /\ href = ""
    /\ request = NoCall /\ route = RouteChild /\ signIn = NoSignIn
    /\ Idle

InitExpense ==
    /\ operands = NoOperands
    /\ expenses = <<>> /\ deposits = <<>>
    /\ now = Today /\ searchTerm = ""
    /\ budgets = <<>> /\ budgetSummary = NoSummary
    /\ selectedYear = Today.year
    /\ expensesQuery = Succeeded /\ depositsQuery = Succeeded
    /\ FormClosed
    /\ ExpenseFormClosed
    /\ SignedIn
    /\ Idle

\* the application is opened on the dashboard, the login or the register
\* page, with whatever an earlier visit left in localStorage
InitSession ==
    /\ operands = NoOperands
    /\ expenses = <<>> /\ deposits = <<>>
    /\ now = Today /\ searchTerm = ""
    /\ budgets = <<>> /\ budgetSummary = NoSummary
    /\ selectedYear = Today.year
    /\ expensesQuery = Succeeded /\ depositsQuery = Succeeded
    /\ FormClosed
    /\ ExpenseFormClosed
    /\ storage \in Storages
    /\ location \in {"/dashboard", "/login", "/register"}
    /\ href = "" /\ request = NoCall
    /\ route = IF location = "/dashboard" THEN RouteMounted ELSE NoRoute
    /\ signIn = IF location = "/login" THEN SignInPage("login")
                ELSE IF location = "/register" THEN SignInPage("register")
                ELSE NoSignIn
    /\ Idle

InitForm ==
    /\ operands = NoOperands
    /\ expenses = <<>> /\ deposits = <<>>
    /\ now = Today /\ searchTerm = ""
    /\ budgets \in SeqUpTo(FormBudgets, 1)
    /\ budgetSummary = NoSummary
    /\ selectedYear = Today.year
    /\ expensesQuery = Succeeded /\ depositsQuery = Succeeded
    /\ FormClosed
    /\ ExpenseFormClosed
    /\ SignedIn
    /\ Idle

\* the router has mounted the budgets page or the expenses page
InitCrud ==
    /\ operands = NoOperands
    /\ expenses = <<>> /\ deposits = <<>>
    /\ now = Today /\ searchTerm = ""
    /\ budgets \in SeqUpTo(FormBudgets, 1)
    /\ budgetSummary = NoSummary
    /\ selectedYear = Today.year
    /\ expensesQuery = Succeeded /\ depositsQuery = Succeeded
    /\ FormClosed
    /\ ExpenseFormClosed
    /\ storage = Stored /\ href = "" /\ request = NoCall
    /\ route = RouteChild /\ signIn = NoSignIn
    /\ location \in {BudgetsPath, ExpensesPath}
    /\ Idle

Init ==
    \/ InitCrud
    \/ InitExpense
    \/ InitSession
    \/ InitForm
    \/ InitPercent \/ InitTotals \/ InitCategory \/ InitMonth \/ InitBudgets
    \/ InitDecimal \/ InitFrame \/ InitFetch

(***************************************************************************)
(* Actions: a call of percentChange, and the render of each page, which    *)
(* derives the page's figures anew from the current inputs.                *)
(***************************************************************************)
inputs == <<operands, expenses, deposits, now, searchTerm, budgets,
            budgetSummary, selectedYear, expensesQuery, depositsQuery, form,
            expenseForm, session>>

ApplyPercentChange ==
    /\ page' = "percentChange"
    /\ out' = [result |-> PercentChange(Num(operands.current),
                                        Num(operands.prev))]
    /\ UNCHANGED inputs

RenderOverview ==
    /\ page # "login"
    /\ page' = OverviewPage(expensesQuery, depositsQuery)
    /\ out' = OverviewOut(expensesQuery, depositsQuery, expenses, deposits, now)
    /\ UNCHANGED inputs

\* the render of the reports with the sort applied to the expenses array
\* itself
RenderReportsSortingInput ==
    LET byAmount == [i \in 1..Len(expenses) |-> Number(expenses[i].amount).num]
    IN  /\ page' = "reports"
        /\ expenses' = SortDescending(expenses, byAmount)
        /\ out' = Reports(expenses', deposits)
        /\ UNCHANGED <<form, expenseForm, session, operands, deposits, now, searchTerm, budgets,
                       budgetSummary, selectedYear, expensesQuery,
                       depositsQuery>>

RenderReports ==
    /\ page' = "reports"
    /\ out' = Reports(expenses, deposits)
    /\ UNCHANGED inputs

RenderExpenses ==
    /\ page' = "expenses"
    /\ out' = ExpensesPage(expenses, searchTerm, now)
    /\ UNCHANGED inputs

RenderDeposits ==
    /\ page' = "deposits"
    /\ out' = DepositsPage(deposits, searchTerm, now)
    /\ UNCHANGED inputs

RenderBudgets ==
    /\ page' = "budgets"
    /\ out' = BudgetsPage(budgets, budgetSummary, selectedYear, searchTerm)
    /\ UNCHANGED inputs

\* the overview's totals over amounts with decimals
RenderDecimalTotals ==
    /\ page' = "totals"
    /\ out' = DecimalTotals(expenses, deposits)
    /\ UNCHANGED inputs

\* time passes: a later new Date() falls in the next month
AdvanceClock ==
    /\ now.year * 12 + now.month < Today.year * 12 + Today.month + MaxClockMonths
    /\ now' = NewDate(now.year, now.month + 1)
    /\ UNCHANGED <<form, expenseForm, session, operands, expenses, deposits, searchTerm, budgets,
                   budgetSummary, selectedYear, expensesQuery, depositsQuery,
                   page, out>>

RenderViews ==
    RenderOverview \/ RenderReports \/ RenderExpenses \/ RenderDeposits

\* a query of the overview settles and the overview renders again; a 401
\* answer makes the response interceptor leave for the login page
Settle(expensesQ, depositsQ, allExpenses, allDeposits, unauthorized) ==
    IF unauthorized
    THEN /\ page' = "login"
         /\ out' = [none |-> TRUE]
         /\ storage' = Intercepted(storage, 401)
         /\ href' = "/login"
    ELSE /\ page' = OverviewPage(expensesQ, depositsQ)
         /\ out' = OverviewOut(expensesQ, depositsQ, allExpenses,
                               allDeposits, now)
         /\ UNCHANGED <<storage, href>>

FetchExpenses ==
    /\ page # "login"
    /\ expensesQuery.status = "loading"
    /\ \E reply \in Replies(FetchedExpenses, MaxFetchLen) :
          LET hasToken  == storage.token
              hasUserId == storage.user
              result == QueryResult(hasToken, hasUserId, reply)
              data   == IF result.status = "success" /\ reply.hasData
                        THEN reply.data ELSE <<>>
          IN  /\ expensesQuery' = result
              /\ expenses' = data
              /\ Settle(result, depositsQuery, data, deposits,
                        hasToken /\ hasUserId
                            /\ reply.status = "unauthorized")
    /\ UNCHANGED <<form, expenseForm, location, request, route, signIn, operands,
                   deposits, now, searchTerm, budgets, budgetSummary,
                   selectedYear, depositsQuery>>

FetchDeposits ==
    /\ page # "login"
    /\ depositsQuery.status = "loading"
    /\ \E reply \in Replies(FetchedDeposits, MaxFetchDeposits) :
          LET hasToken  == storage.token
              hasUserId == storage.user
              result == QueryResult(hasToken, hasUserId, reply)
              data   == IF result.status = "success" /\ reply.hasData
                        THEN reply.data ELSE <<>>
          IN  /\ depositsQuery' = result
              /\ deposits' = data
              /\ Settle(expensesQuery, result, expenses, data,
                        hasToken /\ hasUserId
                            /\ reply.status = "unauthorized")
    /\ UNCHANGED <<form, expenseForm, location, request, route, signIn, operands,
                   expenses, now, searchTerm, budgets, budgetSummary,
                   selectedYear, expensesQuery>>

\* the Retry button of the error view: window.location.reload()
Retry ==
    /\ page = "error"
    /\ expensesQuery' = Loading /\ depositsQuery' = Loading
    /\ expenses' = <<>> /\ deposits' = <<>>
    /\ page' = "loading"
    /\ out' = [spinner |-> TRUE]
    /\ UNCHANGED <<form, expenseForm, session, operands, now, searchTerm, budgets, budgetSummary,
                   selectedYear>>

\* what an answered request leaves alone, the forms aside: all but the
\* stored items and the address the document is sent to
besideRequest == <<operands, expenses, deposits, now, searchTerm, budgets,
                   budgetSummary, selectedYear, expensesQuery, depositsQuery,
                   location, request, route, signIn, page, out>>

outside == <<operands, expenses, deposits, now, searchTerm, budgets,
             budgetSummary, selectedYear, expensesQuery, depositsQuery,
             expenseForm, session, page, out>>

\* the Add Budget buttons
OpenAddBudget ==
    /\ ~isModalOpen
    /\ editingBudget' = 0
    /\ formData' = ResetFormData(now)
    /\ isModalOpen' = TRUE
    /\ UNCHANGED <<isPending, lastRequest, inFlight, invalidated, outside>>

HandleEdit ==
    /\ ~isModalOpen
    /\ \E i \in 1..Len(budgets) :
          /\ editingBudget' = budgets[i].id
          /\ formData' =
                [month               |-> budgets[i].month,
                 year                |-> budgets[i].year,
                 amountLimit         |-> budgets[i].amountLimit,
                 thresholdPercentage |-> budgets[i].thresholdPercentage]
    /\ isModalOpen' = TRUE
    /\ UNCHANGED <<isPending, lastRequest, inFlight, invalidated, outside>>

unedited == <<isModalOpen, isPending, lastRequest, editingBudget, inFlight,
              invalidated, outside>>

ChangeMonth ==
    /\ isModalOpen
    /\ \E m \in FormMonths : formData' = [formData EXCEPT !.month = m]
    /\ UNCHANGED unedited

ChangeYear ==
    /\ isModalOpen
    /\ \E y \in FormYears : formData' = [formData EXCEPT !.year = y]
    /\ UNCHANGED unedited

ChangeAmount ==
    /\ isModalOpen
    /\ \E text \in AmountTexts :
          formData' = [formData EXCEPT
                          !.amountLimit = OrElse(ParseFloat(text), 0)]
    /\ UNCHANGED unedited

ChangeThreshold ==
    /\ isModalOpen
    /\ \E text \in ThresholdTexts :
          formData' = [formData EXCEPT
                          !.thresholdPercentage = OrElse(ParseInt(text), 80)]
    /\ UNCHANGED unedited

CancelForm ==
    /\ isModalOpen
    /\ isModalOpen' = FALSE
    /\ editingBudget' = 0
    /\ formData' = ResetFormData(now)
    /\ UNCHANGED <<isPending, lastRequest, inFlight, invalidated, outside>>

HandleSubmitUnchecked ==
    /\ isModalOpen /\ ~isPending
    /\ FormValid(formData)
    /\ lastRequest' = MutationFn(editingBudget, formData)
    /\ isPending' = TRUE
    /\ inFlight' = inFlight + 1
    /\ UNCHANGED <<formData, isModalOpen, editingBudget, invalidated, outside>>

HandleSubmitWhilePending ==
    /\ isModalOpen
    /\ inFlight < 2
    /\ FormValid(formData)
    /\ IF formData.amountLimit = 0 \/ formData.amountLimit <= 0
       THEN UNCHANGED <<lastRequest, isPending, inFlight>>
       ELSE /\ lastRequest' = MutationFn(editingBudget, formData)
            /\ isPending' = TRUE
            /\ inFlight' = inFlight + 1
    /\ UNCHANGED <<formData, isModalOpen, editingBudget, invalidated, outside>>

\* the submit event of the form; the submit button is disabled while the
\* mutation is pending
HandleSubmit ==
    /\ isModalOpen /\ ~isPending
    /\ FormValid(formData)
    /\ IF formData.amountLimit = 0 \/ formData.amountLimit <= 0
       THEN UNCHANGED <<lastRequest, isPending, inFlight>>
       ELSE /\ lastRequest' = MutationFn(editingBudget, formData)
            /\ isPending' = TRUE
            /\ inFlight' = inFlight + 1
    /\ UNCHANGED <<formData, isModalOpen, editingBudget, invalidated, outside>>

MutationSettledKeepingTarget ==
    /\ isPending /\ inFlight > 0
    /\ isPending' = FALSE
    /\ inFlight' = inFlight - 1
    /\ \E code \in Codes :
          /\ storage' = Intercepted(storage, code)
          /\ href' = Redirected(href, code)
          /\ IF code = 200
             THEN /\ lastRequest' = [lastRequest EXCEPT !.status = "success"]
                  /\ invalidated' = BudgetQueries
                  /\ isModalOpen' = FALSE
                  /\ UNCHANGED editingBudget
                  /\ formData' = ResetFormData(now)
             ELSE /\ lastRequest' = [lastRequest EXCEPT !.status = "error"]
                  /\ UNCHANGED <<formData, isModalOpen, editingBudget,
                                 invalidated>>
    /\ UNCHANGED <<expenseForm, besideRequest>>

\* the mutation is answered through the response interceptor: onSuccess
\* invalidates the queries and closes and resets the form, an error
\* leaves it open
MutationSettled ==
    /\ isPending /\ inFlight > 0
    /\ isPending' = FALSE
    /\ inFlight' = inFlight - 1
    /\ \E code \in Codes :
          /\ storage' = Intercepted(storage, code)
          /\ href' = Redirected(href, code)
          /\ IF code = 200
             THEN /\ lastRequest' = [lastRequest EXCEPT !.status = "success"]
                  /\ invalidated' = BudgetQueries
                  /\ isModalOpen' = FALSE
                  /\ editingBudget' = 0
                  /\ formData' = ResetFormData(now)
             ELSE /\ lastRequest' = [lastRequest EXCEPT !.status = "error"]
                  /\ UNCHANGED <<formData, isModalOpen, editingBudget,
                                 invalidated>>
    /\ UNCHANGED <<expenseForm, besideRequest>>

\* the invalidated queries are fetched again
RefetchBudgets ==
    /\ invalidated # {}
    /\ invalidated' = {}
    /\ budgets' \in SeqUpTo(FormBudgets, 1)
    /\ UNCHANGED <<formData, isModalOpen, isPending, lastRequest,
                   editingBudget, inFlight, operands, expenses, deposits, now,
                   searchTerm, budgetSummary, selectedYear, expensesQuery,
                   depositsQuery, expenseForm, session, page, out>>

FormNext ==
    \/ OpenAddBudget \/ HandleEdit \/ ChangeMonth \/ ChangeYear
    \/ ChangeAmount \/ ChangeThreshold \/ CancelForm \/ HandleSubmit
    \/ MutationSettled \/ RefetchBudgets

beyondExpenseForm == <<operands, expenses, deposits, now, searchTerm,
                       budgets, budgetSummary, selectedYear, expensesQuery,
                       depositsQuery, form, session, page, out>>

\* the Add Expense button
OpenAddExpense ==
    /\ ~expensesPage.isModalOpen
    /\ expensesPage' = [expensesPage EXCEPT !.isModalOpen = TRUE,
                                            !.editingExpense = 0,
                                            !.formData = ResetExpenseForm]
    /\ UNCHANGED <<saving, calls, beyondExpenseForm>>

\* handleEdit of an expense of the list
HandleEditExpense ==
    /\ ~expensesPage.isModalOpen
    /\ \E recurring \in BOOLEAN :
          expensesPage' =
              [expensesPage EXCEPT
                  !.isModalOpen = TRUE,
                  !.editingExpense = 1,
                  !.formData = [filled |-> TRUE, isRecurring |-> recurring]]
    /\ UNCHANGED <<saving, calls, beyondExpenseForm>>

\* the inputs of the form: the required fields become filled or empty,
\* the recurring box is ticked or cleared
ChangeExpenseForm ==
    /\ expensesPage.isModalOpen
    /\ \E filled \in BOOLEAN, recurring \in BOOLEAN :
          expensesPage' =
              [expensesPage EXCEPT
                  !.formData = [filled |-> filled, isRecurring |-> recurring]]
    /\ UNCHANGED <<saving, calls, beyondExpenseForm>>

CancelExpenseForm ==
    /\ expensesPage.isModalOpen
    /\ expensesPage' = [expensesPage EXCEPT !.isModalOpen = FALSE,
                                            !.editingExpense = 0,
                                            !.formData = ResetExpenseForm]
    /\ UNCHANGED <<saving, calls, beyondExpenseForm>>

\* createMutation's mutationFn with the submission data
ExpenseCall(editing, data, recurringExpenseId) ==
    [api |-> IF editing # 0 THEN "update" ELSE "create",
     status |-> "sent", isRecurring |-> data.isRecurring,
     recurringExpenseId |-> recurringExpenseId, returnedId |-> 0]

RecurringCall ==
    [api |-> "createRecurring", status |-> "sent", isRecurring |-> TRUE,
     recurringExpenseId |-> 0, returnedId |-> 0]

\* handleSubmit up to its first await; the submit button is disabled
\* while loading
SubmitExpense ==
    /\ expensesPage.isModalOpen /\ ~expensesPage.loading
    /\ Len(calls) + 2 <= MaxCalls
    /\ IF ~expensesPage.formData.filled
       THEN UNCHANGED <<expensesPage, saving, calls>>
       ELSE /\ expensesPage' = [expensesPage EXCEPT !.loading = TRUE]
            /\ IF expensesPage.formData.isRecurring
               THEN /\ calls' = Append(calls, RecurringCall)
                    /\ saving' = [pc |-> "awaitRecurring",
                                  formData |-> expensesPage.formData,
                                  recurringExpenseId |-> 0]
               ELSE /\ calls' = Append(calls,
                                       ExpenseCall(expensesPage.editingExpense,
                                                   expensesPage.formData, 0))
                    /\ saving' = [pc |-> "awaitMutation",
                                  formData |-> expensesPage.formData,
                                  recurringExpenseId |-> 0]
    /\ UNCHANGED beyondExpenseForm

\* whether handleSubmit goes on after the answer to createRecurring, with
\* the test of data.success left out
RecurringAcceptedUnchecked(answer) == answer # "failed"

\* whether handleSubmit goes on after the answer to createRecurring: the
\* call resolved and data.success is set
RecurringAccepted(answer) == answer = "ok"

\* the answers to createRecurring: resolved with success set or not set,
\* or rejected
Answers(code) == IF code = 200 THEN {"ok", "refused"} ELSE {"failed"}

\* createRecurring is answered through the response interceptor:
\* handleSubmit goes on to the mutation with the returned id, or to its
\* catch and finally
RecurringAnswered ==
    /\ saving.pc = "awaitRecurring"
    /\ \E code \in Codes, id \in RecurringIds :
        \E answer \in Answers(code) :
          LET n        == Len(calls)
              answered == [calls EXCEPT ![n].status = answer,
                                        ![n].returnedId =
                                            IF answer = "failed" THEN 0 ELSE id]
          IN  /\ storage' = Intercepted(storage, code)
              /\ href' = Redirected(href, code)
              /\ IF RecurringAccepted(answer)
                 THEN /\ calls' =
                           Append(answered,
                                  ExpenseCall(expensesPage.editingExpense,
                                              saving.formData, id))
                      /\ saving' = [saving EXCEPT !.pc = "awaitMutation",
                                                  !.recurringExpenseId = id]
                      /\ UNCHANGED expensesPage
                 ELSE /\ calls' = answered
                      /\ saving' = NotSaving
                      /\ expensesPage' =
                           [expensesPage EXCEPT !.loading = FALSE]
    /\ UNCHANGED <<form, besideRequest>>

\* the create or update is answered through the response interceptor:
\* onSuccess invalidates the queries and closes and resets the form;
\* handleSubmit's catch and finally follow
ExpenseSettled ==
    /\ saving.pc = "awaitMutation"
    /\ \E code \in Codes :
          /\ storage' = Intercepted(storage, code)
          /\ href' = Redirected(href, code)
          /\ calls' = [calls EXCEPT ![Len(calls)].status =
                                        IF code = 200 THEN "ok" ELSE "failed"]
          /\ expensesPage' =
                IF code = 200
                THEN [expensesPage EXCEPT !.isModalOpen = FALSE,
                                          !.editingExpense = 0,
                                          !.formData = ResetExpenseForm,
                                          !.invalidated = TRUE,
                                          !.loading = FALSE]
                ELSE [expensesPage EXCEPT !.loading = FALSE]
    /\ saving' = NotSaving
    /\ UNCHANGED <<form, besideRequest>>

\* the invalidated expense queries are fetched again
RefetchExpenses ==
    /\ expensesPage.invalidated
    /\ expensesPage' = [expensesPage EXCEPT !.invalidated = FALSE]
    /\ UNCHANGED <<saving, calls, beyondExpenseForm>>

ExpenseNext ==
    \/ OpenAddExpense \/ HandleEditExpense \/ ChangeExpenseForm
    \/ CancelExpenseForm \/ SubmitExpense \/ RecurringAnswered
    \/ ExpenseSettled \/ RefetchExpenses

\* the handlers of the page that the route of the location renders
CrudNext ==
    \/ location = BudgetsPath /\ OpenAddBudget
    \/ location = BudgetsPath /\ HandleEdit
    \/ location = BudgetsPath /\ ChangeMonth
    \/ location = BudgetsPath /\ ChangeYear
    \/ location = BudgetsPath /\ ChangeAmount
    \/ location = BudgetsPath /\ ChangeThreshold
    \/ location = BudgetsPath /\ CancelForm
    \/ location = BudgetsPath /\ HandleSubmit
    \/ location = BudgetsPath /\ MutationSettled
    \/ location = BudgetsPath /\ RefetchBudgets
    \/ location = ExpensesPath /\ OpenAddExpense
    \/ location = ExpensesPath /\ HandleEditExpense
    \/ location = ExpensesPath /\ ChangeExpenseForm
    \/ location = ExpensesPath /\ CancelExpenseForm
    \/ location = ExpensesPath /\ SubmitExpense
    \/ location = ExpensesPath /\ RecurringAnswered
    \/ location = ExpensesPath /\ ExpenseSettled
    \/ location = ExpensesPath /\ RefetchExpenses

beyondSession == <<operands, expenses, deposits, now, searchTerm, budgets,
                   budgetSummary, selectedYear, expensesQuery, depositsQuery,
                   form, expenseForm, page, out>>

\* a protected path is opened: ProtectedRoute mounts
VisitDashboard ==
    /\ location # "/dashboard"
    /\ request = NoCall /\ signIn.pc = "idle"
    /\ location' = "/dashboard"
    /\ route' = RouteMounted
    /\ signIn' = NoSignIn
    /\ UNCHANGED <<storage, href, request, beyondSession>>

\* the link between the Login and the Register page
FollowLink ==
    /\ signIn.page \in {"login", "register"}
    /\ request = NoCall /\ signIn.pc = "idle"
    /\ LET other == IF signIn.page = "login" THEN "register" ELSE "login"
       IN  /\ location' = IF other = "login" THEN "/login" ELSE "/register"
           /\ signIn' = SignInPage(other)
    /\ UNCHANGED <<storage, href, request, route, beyondSession>>

\* checkAuth up to its await: without a token it ends at once
CheckAuth ==
    /\ route.pc = "mounted"
    /\ IF ~storage.token
       THEN /\ route' = [pc |-> "doneNoToken", isAuthenticated |-> "false",
                         isLoading |-> FALSE]
            /\ UNCHANGED request
       ELSE /\ route' = [route EXCEPT !.pc = "awaiting"]
            /\ request' = [caller |-> "check", status |-> "sent", code |-> 0,
                           bearer |-> storage.token]
    /\ UNCHANGED <<storage, location, href, signIn, beyondSession>>

\* the answer to the call under way passes the response interceptor
Respond ==
    /\ request.status = "sent"
    /\ \E code \in Codes :
          /\ request' = [request EXCEPT
                            !.status = IF code = 200 THEN "resolved"
                                       ELSE "rejected",
                            !.code = code]
          /\ storage' = Intercepted(storage, code)
          /\ href' = Redirected(href, code)
    /\ UNCHANGED <<location, route, signIn, beyondSession>>

\* checkAuth after the await: setIsAuthenticated(true)
CheckResolved ==
    /\ route.pc = "awaiting"
    /\ request.caller = "check" /\ request.status = "resolved"
    /\ route' = [route EXCEPT !.pc = "resolved", !.isAuthenticated = "true"]
    /\ request' = NoCall
    /\ UNCHANGED <<storage, location, href, signIn, beyondSession>>

CheckRejectedKeepingItems ==
    /\ route.pc = "awaiting"
    /\ request.caller = "check" /\ request.status = "rejected"
    /\ route' = [route EXCEPT !.pc = "rejected", !.isAuthenticated = "false"]
    /\ request' = NoCall
    /\ UNCHANGED <<storage, location, href, signIn, beyondSession>>

\* checkAuth's catch
CheckRejected ==
    /\ route.pc = "awaiting"
    /\ request.caller = "check" /\ request.status = "rejected"
    /\ storage' = Cleared
    /\ route' = [route EXCEPT !.pc = "rejected", !.isAuthenticated = "false"]
    /\ request' = NoCall
    /\ UNCHANGED <<location, href, signIn, beyondSession>>

\* checkAuth's finally
CheckFinally ==
    /\ route.pc \in {"resolved", "rejected"}
    /\ route' = [route EXCEPT
                    !.isLoading = FALSE,
                    !.pc = IF route.pc = "resolved" THEN "doneResolved"
                           ELSE "doneRejected"]
    /\ UNCHANGED <<storage, location, href, request, signIn, beyondSession>>

\* <Navigate to="/login" replace />
RouteRedirect ==
    /\ RouteView(route) = "redirect"
    /\ location' = "/login"
    /\ route' = NoRoute
    /\ signIn' = SignInPage("login")
    /\ UNCHANGED <<storage, href, request, beyondSession>>

\* logout() of the settings page
Logout ==
    /\ RouteView(route) = "child"
    /\ href = ""
    /\ storage' = Cleared
    /\ href' = "/login"
    /\ UNCHANGED <<location, request, route, signIn, beyondSession>>

\* the browser loads the path assigned to window.location.href
LoadHref ==
    /\ href # ""
    /\ request = NoCall
    /\ route.pc \notin {"resolved", "rejected"}
    /\ signIn.pc = "idle"
    /\ location' = href
    /\ href' = ""
    /\ route' = NoRoute
    /\ signIn' = SignInPage("login")
    /\ UNCHANGED <<storage, request, beyondSession>>

\* onSubmit of Login and of Register up to the await
SubmitSignIn ==
    /\ signIn.page \in {"login", "register"}
    /\ signIn.pc = "idle" /\ ~signIn.isLoading
    /\ request = NoCall
    /\ signIn' = [signIn EXCEPT !.error = "", !.isLoading = TRUE,
                                !.pc = "awaiting"]
    /\ request' = [caller |-> signIn.page, status |-> "sent", code |-> 0,
                   bearer |-> storage.token]
    /\ UNCHANGED <<storage, location, href, route, beyondSession>>

\* onSubmit after the await: both items are stored and the router
\* navigates to the dashboard
SignInResolved ==
    /\ signIn.pc = "awaiting"
    /\ request.caller = signIn.page /\ request.status = "resolved"
    /\ storage' = Stored
    /\ location' = "/dashboard"
    /\ route' = RouteMounted
    /\ signIn' = [signIn EXCEPT !.pc = "resolved"]
    /\ request' = NoCall
    /\ UNCHANGED <<href, beyondSession>>

\* onSubmit's catch
SignInRejected ==
    /\ signIn.pc = "awaiting"
    /\ request.caller = signIn.page /\ request.status = "rejected"
    /\ signIn' = [signIn EXCEPT
                     !.pc = "rejected",
                     !.error = IF signIn.page = "login" THEN "Login failed"
                               ELSE "Registration failed"]
    /\ request' = NoCall
    /\ UNCHANGED <<storage, location, href, route, beyondSession>>

\* onSubmit's finally; after a success the page is left
SignInFinally ==
    /\ signIn.pc \in {"resolved", "rejected"}
    /\ signIn' = IF signIn.pc = "resolved" THEN NoSignIn
                 ELSE [signIn EXCEPT !.isLoading = FALSE, !.pc = "idle"]
    /\ UNCHANGED <<storage, location, href, request, route, beyondSession>>

SessionNext ==
    \/ VisitDashboard \/ FollowLink \/ CheckAuth \/ Respond
    \/ CheckResolved \/ CheckRejected \/ CheckFinally \/ RouteRedirect
    \/ Logout \/ LoadHref \/ SubmitSignIn \/ SignInResolved
    \/ SignInRejected \/ SignInFinally

Next ==
    \/ CrudNext
    \/ ExpenseNext
    \/ SessionNext
    \/ FormNext
    \/ ApplyPercentChange \/ RenderViews \/ RenderBudgets
    \/ RenderDecimalTotals \/ AdvanceClock
    \/ FetchExpenses \/ FetchDeposits \/ Retry

Spec == Init /\ [][Next]_vars

SpecPercent == InitPercent /\ [][ApplyPercentChange]_vars

SpecTotals == InitTotals /\ [][RenderViews]_vars

SpecCategory == InitCategory /\ [][RenderViews]_vars

SpecMonth == InitMonth /\ [][RenderViews]_vars

SpecBudgets == InitBudgets /\ [][RenderBudgets]_vars

SpecDecimal == InitDecimal /\ [][RenderDecimalTotals]_vars

SpecFrame == InitFrame /\ [][RenderViews \/ RenderBudgets]_vars

SpecClock == InitMonth /\ [][RenderViews \/ AdvanceClock]_vars

SpecCrud == InitCrud /\ [][CrudNext]_vars

SpecExpense == InitExpense /\ [][ExpenseNext]_vars

SpecSession == InitSession /\ [][SessionNext]_vars

SpecForm == InitForm /\ [][FormNext]_vars

SpecFetch ==
    InitFetch /\ [][RenderOverview \/ FetchExpenses \/ FetchDeposits
                      \/ Retry]_vars

(***************************************************************************)
(* Properties                                                              *)
(***************************************************************************)
\* the sum of the numeric amounts of the records of items at the indices I
RECURSIVE AmountsAt(_, _)
AmountsAt(items, I) ==
    IF I = {} THEN 0
    ELSE LET i == CHOOSE j \in I : TRUE
         IN  items[i].amount.val + AmountsAt(items, I \ {i})

\* C1: percentChange(current, previous) is 0 when both arguments are 0, is
\* exactly 100 when previous is 0 and current is not, and is otherwise
\* (current - previous) / |previous| * 100; so percentChange(0, 0) = 0,
\* percentChange(5, 0) = 100 and percentChange(50, 100) = -50.
C1_PercentChange ==
    page = "percentChange" =>
        LET c == operands.current
            p == operands.prev
            r == out.result
        IN  /\ ~r.nan /\ r.den > 0
            /\ (p = 0 /\ c = 0) => r = Num(0)
            /\ (p = 0 /\ c # 0) => r = Num(100)
            /\ p # 0 => r.num * Abs(p) = (c - p) * 100 * r.den
            /\ (c = 0 /\ p = 0) => r.num = 0
            /\ (c = 5 /\ p = 0) => r.num = 100
            /\ (c = 50 /\ p = 100) => (r.num = -50 /\ r.den = 1)

C1_Witness ==
    /\ page = "percentChange"
    /\ operands = [current |-> 50, prev |-> 100]
    /\ out.result = Num(-50)

\* The usage status a budget has by the documented rule: over budget when
\* spent > limit, near the limit when spent / limit * 100 > threshold and
\* not over, on track otherwise (a zero limit with nothing spent uses 0 %)
StatusByRule(spent, limit, threshold) ==
    IF spent > limit THEN "text-danger-600"
    ELSE IF limit > 0 /\ spent * 100 > threshold * limit
    THEN "text-warning-600"
    ELSE "text-success-600"

\* C2: for every budget with spent >= 0, limit >= 0 and a threshold in
\* 1..100 the usage status shown is OverBudget exactly when spent > limit,
\* NearLimit exactly when spent / limit * 100 > thresholdPercentage and the
\* budget is not over, and OnTrack otherwise: in the rows of the budgets
\* table and on the usage card of the current budget.
C2_UsageStatus ==
    page = "budgets" =>
        /\ \A i \in 1..Len(out.rows) :
              LET b == out.rows[i].budget
              IN  out.rows[i].usageClass =
                      StatusByRule(b.spentAmount, b.amountLimit,
                                   b.thresholdPercentage)
        /\ out.showCurrent =>
              out.cardUsageClass =
                  StatusByRule(budgetSummary.totalSpent,
                               budgetSummary.currentBudget.amountLimit,
                               budgetSummary.currentBudget.thresholdPercentage)

\* C2 on the rows alone, and on the card alone
C2_RowStatus ==
    page = "budgets" =>
        \A i \in 1..Len(out.rows) :
            LET b == out.rows[i].budget
            IN  out.rows[i].usageClass =
                    StatusByRule(b.spentAmount, b.amountLimit,
                                 b.thresholdPercentage)

C2_CardStatus ==
    (page = "budgets" /\ out.showCurrent) =>
        out.cardUsageClass =
            StatusByRule(budgetSummary.totalSpent,
                         budgetSummary.currentBudget.amountLimit,
                         budgetSummary.currentBudget.thresholdPercentage)

\* the cases the specification names are classified as it says
C2_NamedCases ==
    page = "budgets" =>
        \A i \in 1..Len(out.rows) :
            LET b == out.rows[i].budget
            IN  (b.amountLimit = 100 /\ b.thresholdPercentage = 80) =>
                    /\ b.spentAmount = 80 =>
                          out.rows[i].usageClass = "text-success-600"
                    /\ b.spentAmount = 81 =>
                          out.rows[i].usageClass = "text-warning-600"
                    /\ b.spentAmount = 101 =>
                          out.rows[i].usageClass = "text-danger-600"

\* C3: percentOfLimit never produces a divide-by-zero fault: for limit > 0
\* it is spent / limit * 100 (here: finite and within 1 of it); for a zero
\* limit it is 0 when nothing was spent and a distinguished over-limit
\* value otherwise, never NaN and never a raw infinity.
C3_PercentOfLimit ==
    page = "budgets" =>
        \A i \in 1..Len(out.rows) :
            LET b == out.rows[i].budget
                u == out.rows[i].usagePercentage
                n == IF b.amountLimit > 0
                     THEN (100 * b.spentAmount) \div b.amountLimit ELSE 0
            IN  /\ u.kind \notin {"nan", "inf"}
                /\ b.amountLimit > 0 =>
                      /\ u.kind \in {"zero", "fin"}
                      /\ ~DoubleGtInt(u, n + 1)
                      /\ n > 0 => DoubleGtInt(u, n - 1)
                /\ (b.amountLimit = 0 /\ b.spentAmount = 0) => u.kind = "zero"
                /\ (b.amountLimit = 0 /\ b.spentAmount > 0) =>
                      u.kind = "unbounded"

\* C3 for the budgets whose limit is not zero
C3_PositiveLimit ==
    page = "budgets" =>
        \A i \in 1..Len(out.rows) :
            LET b == out.rows[i].budget
                u == out.rows[i].usagePercentage
                n == (100 * b.spentAmount) \div b.amountLimit
            IN  b.amountLimit > 0 =>
                    /\ u.kind \in {"zero", "fin"}
                    /\ ~DoubleGtInt(u, n + 1)
                    /\ n > 0 => DoubleGtInt(u, n - 1)

\* months counted from year 0, and the indices of the records of a month
MonthNumber(date) == date.year * 12 + date.month

IndicesOfMonth(items, monthNumber) ==
    {i \in 1..Len(items) : MonthNumber(items[i].date) = monthNumber}

\* the month of entry k of a six-month series that ends with the month of
\* the clock
WindowMonth(k) == MonthNumber(now) - (6 - k)

\* the overview's series: six entries, month after month up to the month of
\* the clock, a month without records at 0
C4_OverviewTrend ==
    page = "overview" =>
        /\ Len(out.monthlyTrend) = 6
        /\ \A k \in 1..6 :
              /\ out.monthlyTrend[k].month = MONTH_SHORT[(WindowMonth(k) % 12) + 1]
              /\ IndicesOfMonth(expenses, WindowMonth(k)) = {} =>
                    out.monthlyTrend[k].expenses = Num(0)
              /\ IndicesOfMonth(deposits, WindowMonth(k)) = {} =>
                    out.monthlyTrend[k].deposits = Num(0)

\* C4: for any expense and deposit lists, empty and sparse ones included,
\* and any reference date, the monthly trend series has exactly 6 entries,
\* one for each consecutive calendar month ending with the reference month,
\* oldest first, and a month without transactions appears with total 0: on
\* the overview and in the monthly expense trends of the reports.
C4_MonthlyTrend ==
    /\ C4_OverviewTrend
    /\ page = "reports" =>
          /\ Len(out.monthlyRows) = 6
          /\ \A k \in 1..Len(out.monthlyRows) :
                /\ KeyTime(out.monthlyRows[k].month) = WindowMonth(k)
                /\ IndicesOfMonth(expenses, WindowMonth(k)) = {} =>
                      out.monthlyRows[k].amount = Num(0)

\* what the reports do show: at most six months, newest first, and only
\* months that have an expense
C4_ReportsRows ==
    page = "reports" =>
        /\ Len(out.monthlyRows) <= 6
        /\ \A k \in 1..Len(out.monthlyRows) :
              /\ IndicesOfMonth(expenses,
                                KeyTime(out.monthlyRows[k].month)) # {}
              /\ k > 1 => KeyTime(out.monthlyRows[k].month)
                              < KeyTime(out.monthlyRows[k - 1].month)

\* C5: each entry of the monthly trend is the sum of the amounts of exactly
\* the transactions whose date has the month and the year of the entry's
\* calendar month, also when the six months cross the end of a year; a
\* transaction of the same month of another year or from outside the six
\* months is counted in no entry, and none is counted twice.
C5_TrendSums ==
    page = "overview" =>
        /\ \A k \in 1..6 :
              /\ out.monthlyTrend[k].expenses =
                     Num(AmountsAt(expenses,
                                   IndicesOfMonth(expenses, WindowMonth(k))))
              /\ out.monthlyTrend[k].deposits =
                     Num(AmountsAt(deposits,
                                   IndicesOfMonth(deposits, WindowMonth(k))))
        /\ \A i \in 1..Len(expenses) :
              Cardinality({k \in 1..6 :
                              /\ MonthNumber(expenses[i].date) = WindowMonth(k)
                              /\ out.monthlyTrend[k].expenses.num > 0})
                  = IF MonthNumber(expenses[i].date) \in
                           {WindowMonth(k) : k \in 1..6}
                    THEN 1 ELSE 0
        /\ LET Total(k) == out.monthlyTrend[k].expenses.num
           IN  Total(1) + Total(2) + Total(3) + Total(4) + Total(5) + Total(6)
                   = AmountsAt(expenses,
                               {i \in 1..Len(expenses) :
                                   MonthNumber(expenses[i].date) \in
                                       {WindowMonth(k) : k \in 1..6}})

\* in January 2024 an expense of December 2023 is in the fifth entry and an
\* expense of January 2023 is in none
C5_Witness ==
    /\ page = "overview"
    /\ now = Date(2024, 0)
    /\ Len(expenses) = 2
    /\ expenses[1].date = Date(2023, 11) /\ expenses[1].amount = Amount(5)
    /\ expenses[2].date = Date(2023, 0) /\ expenses[2].amount = Amount(10)
    /\ out.monthlyTrend[5].expenses = Num(5)
    /\ out.monthlyTrend[6].expenses = Num(0)
    /\ out.monthlyTrend[5].month = "Dec"

Indices(items) == 1..Len(items)

WellFormed(items) == {i \in Indices(items) : items[i].amount.kind = "number"}

AllNumbers(items) == WellFormed(items) = Indices(items)

\* C6: sumAmounts is the arithmetic sum of the amounts of all transactions
\* of the list it is given and 0 for the empty list, for every total shown:
\* total expenses, total income or deposits, and the totals of this month.
C6_SumAmounts ==
    LET Sum(items) == Num(AmountsAt(items, Indices(items)))
    IN  /\ page = "overview" =>
              /\ AllNumbers(expenses) =>
                    /\ out.totalExpenses = Sum(expenses)
                    /\ out.expensesThisMonth = Sum(expenses)
              /\ AllNumbers(deposits) =>
                    /\ out.totalIncome = Sum(deposits)
                    /\ out.incomeThisMonth = Sum(deposits)
              /\ expenses = <<>> => out.totalExpenses = Num(0)
        /\ page \in {"expenses", "deposits"} =>
              /\ AllNumbers(out.filtered) => out.total = Sum(out.filtered)
              /\ AllNumbers(out.thisMonth) =>
                    out.thisMonthTotal = Sum(out.thisMonth)
              /\ out.filtered = <<>> => out.total = Num(0)
        /\ page = "reports" =>
              /\ AllNumbers(expenses) => out.totalExpenses = Sum(expenses)
              /\ AllNumbers(deposits) => out.totalDeposits = Sum(deposits)

\* two expenses of 5 and 10 total 15
C6_Witness ==
    /\ page = "overview"
    /\ Len(expenses) = 2
    /\ expenses[1].amount = Amount(5) /\ expenses[2].amount = Amount(10)
    /\ deposits = <<>>
    /\ out.totalExpenses = Num(15)
    /\ out.totalIncome = Num(0)

\* C7: sumAmounts coerces an amount that is not a number or is malformed to
\* 0 before it sums: in every view that computes a total, the total is the
\* sum of the well-formed amounts alone and one malformed amount never makes
\* it a non-number.
C7_MalformedAsZero ==
    LET Sum(items) == Num(AmountsAt(items, WellFormed(items)))
    IN  /\ page = "overview" =>
              /\ out.totalExpenses = Sum(expenses)
              /\ out.totalIncome = Sum(deposits)
        /\ page \in {"expenses", "deposits"} =>
              /\ out.total = Sum(out.filtered)
              /\ out.thisMonthTotal = Sum(out.thisMonth)
        /\ page = "reports" =>
              /\ out.totalExpenses = Sum(expenses)
              /\ out.totalDeposits = Sum(deposits)

\* the totals of the overview, the expenses page and the deposits page are
\* a non-number exactly when an amount of the list is a text, with or
\* without digits in front
C7_NumberTotals ==
    LET Readable(items) ==
            \A i \in Indices(items) :
                items[i].amount.kind \in {"number", "null"}
    IN  /\ page = "overview" =>
              /\ Readable(expenses) <=> ~out.totalExpenses.nan
              /\ Readable(deposits) <=> ~out.totalIncome.nan
        /\ page \in {"expenses", "deposits"} =>
              Readable(out.filtered) <=> ~out.total.nan

\* the reports' totals are always numbers: an amount parseFloat cannot read
\* counts 0, and one with a numeric prefix counts as its prefix
C7_ReportsTotals ==
    page = "reports" =>
        /\ ~out.totalExpenses.nan /\ ~out.totalDeposits.nan
        /\ out.totalExpenses =
               Num(AmountsAt(expenses,
                             {i \in Indices(expenses) :
                                 expenses[i].amount.kind \in
                                     {"number", "prefixed"}}))

\* the label a transaction is grouped under
LabelOf(item, fallback) ==
    IF item.hasCategory /\ item.category # "" THEN item.category ELSE fallback

IndicesOfLabel(items, fallback, label) ==
    {i \in Indices(items) : LabelOf(items[i], fallback) = label}

\* the sum of the values of the function f at the indices I
RECURSIVE SumOver(_, _)
SumOver(f, I) ==
    IF I = {} THEN 0
    ELSE LET i == CHOOSE j \in I : TRUE
         IN  f[i] + SumOver(f, I \ {i})

NameRank(name) ==
    CASE name = "Food"          -> 1
      [] name = "Other"         -> 2
      [] name = "Uncategorized" -> 3

\* entry a is listed before entry b: greater amount, or equal amount and
\* the name earlier in the alphabet
RankedBefore(amountA, nameA, amountB, nameB) ==
    \/ amountA > amountB
    \/ amountA = amountB /\ NameRank(nameA) < NameRank(nameB)

\* C9: the category breakdown rendered as a ranked list is ordered by
\* amount descending and, among equal amounts, by category name ascending,
\* so that the order does not depend on the order of the transactions: in
\* the reports' category list and in the overview's expense categories.
C9_RankedOrder ==
    /\ page = "reports" =>
          \A i \in 1..Len(out.categoryRanking) :
              i > 1 =>
                  RankedBefore(out.categoryRanking[i - 1].amount.num,
                               out.categoryRanking[i - 1].category,
                               out.categoryRanking[i].amount.num,
                               out.categoryRanking[i].category)
    /\ page = "overview" =>
          \A i \in 1..Len(out.expenseCategories) :
              i > 1 =>
                  RankedBefore(out.expenseCategories[i - 1].value.num,
                               out.expenseCategories[i - 1].name,
                               out.expenseCategories[i].value.num,
                               out.expenseCategories[i].name)

\* C9 in the reports alone
C9_ReportsOrder ==
    page = "reports" =>
        \A i \in 1..Len(out.categoryRanking) :
            i > 1 =>
                RankedBefore(out.categoryRanking[i - 1].amount.num,
                             out.categoryRanking[i - 1].category,
                             out.categoryRanking[i].amount.num,
                             out.categoryRanking[i].category)

\* what the reports do guarantee: amounts never ascend, and categories of
\* equal amount keep the order in which they first occur in the expenses
C9_ReportsByAmount ==
    page = "reports" =>
        \A i, j \in 1..Len(out.categoryRanking) :
            i < j =>
                LET a == out.categoryRanking[i]
                    b == out.categoryRanking[j]
                    First(c) ==
                        CHOOSE e \in Indices(expenses) :
                            /\ LabelOf(expenses[e], "Uncategorized") = c
                            /\ \A f \in 1..(e - 1) :
                                  LabelOf(expenses[f], "Uncategorized") # c
                IN  /\ a.amount.num >= b.amount.num
                    /\ a.amount.num = b.amount.num =>
                          First(a.category) < First(b.category)

\* a sequence back to front, and rearranged by a permutation f of its indices
Reverse(items) == [i \in 1..Len(items) |-> items[Len(items) + 1 - i]]

Rearranged(items, f) == [i \in 1..Len(items) |-> items[f[i]]]

\* C13: the sum does not depend on the order of the transactions: for every
\* sequence T the sum of T equals the sum of T reversed and the sum of any
\* permutation of T.
C13_OrderIndependent ==
    page = "totals" =>
        /\ out.totalExpenses = SumDecimal(Reverse(expenses))
        /\ \A f \in Permutations(1..Len(expenses)) :
              out.totalExpenses = SumDecimal(Rearranged(expenses, f))

\* C13 for whole amounts, which binary64 adds without rounding
C13_WholeAmounts ==
    page = "overview" =>
        /\ out.totalExpenses = SumNumber(Reverse(expenses))
        /\ \A f \in Permutations(1..Len(expenses)) :
              out.totalExpenses = SumNumber(Rearranged(expenses, f))

\* two amounts alone may be swapped
C13_TwoAmounts ==
    (page = "totals" /\ Len(expenses) <= 2) =>
        out.totalExpenses = SumDecimal(Reverse(expenses))

\* a page is rendered again over the lists and the search term it was
\* rendered over before
RenderedAgain ==
    /\ page # "none" /\ page' = page
    /\ expenses' = expenses /\ deposits' = deposits
    /\ searchTerm' = searchTerm

\* C14: aggregation is a function of the transaction lists and an explicit
\* reference date only, with no dependence on a clock read hidden inside
\* the computation.  The pages are given the lists and no reference date, so
\* two evaluations over the same lists yield identical totals, this-month
\* and last-month sums, percent changes and trend series.
C14_NoHiddenClock == [][RenderedAgain => out' = out]_vars

\* what does not depend on the clock: the totals, the category breakdown
\* and the reports
C14_ClockFreeFigures ==
    [][RenderedAgain =>
          /\ page = "overview" =>
                /\ out'.totalExpenses = out.totalExpenses
                /\ out'.totalIncome = out.totalIncome
                /\ out'.netSavings = out.netSavings
                /\ out'.expensesByCategory = out.expensesByCategory
          /\ page \in {"expenses", "deposits"} =>
                /\ out'.filtered = out.filtered
                /\ out'.total = out.total
          /\ page = "reports" => out' = out]_vars

IsNumber(x) == ~x.nan /\ x.den > 0

\* C16: every aggregation and list-filter operation is total over records
\* of the documented domain (amount >= 0, a date, an optional category or
\* type name and note, budget month in 1..12): a missing category, type or
\* note and a zero denominator yield defined defaults and nothing throws,
\* so every figure shown is a defined number and every list a list.
C16_Total ==
    /\ page = "budgets" =>
          /\ \A i \in 1..Len(out.rows) :
                /\ out.rows[i].usagePercentage.kind \in {"zero", "fin"}
                /\ out.rows[i].usageClass \in
                       {"text-danger-600", "text-warning-600",
                        "text-success-600"}
                /\ out.rows[i].remaining >= 0
          /\ out.totalSpent >= 0 /\ out.remainingBudget >= 0
    /\ page = "overview" =>
          /\ IsNumber(out.totalExpenses) /\ IsNumber(out.totalIncome)
          /\ IsNumber(out.incomeChange) /\ IsNumber(out.expensesChange)
          /\ \A i \in 1..Len(out.expensesByCategory) :
                out.expensesByCategory[i].category # ""
    /\ page \in {"expenses", "deposits"} =>
          /\ IsNumber(out.total) /\ IsNumber(out.thisMonthTotal)
          /\ Len(out.filtered) <= Len(expenses) + Len(deposits)
    /\ page = "reports" =>
          /\ IsNumber(out.totalExpenses) /\ IsNumber(out.totalDeposits)
          /\ \A i \in 1..Len(out.categoryRanking) :
                IsNumber(out.categoryRanking[i].percentage)

\* C16 for budgets whose limit is not zero
C16_PositiveLimits ==
    (page = "budgets" /\ \A i \in 1..Len(budgets) : budgets[i].amountLimit > 0)
        => C16_Total

\* the list filters with an empty search box: the expenses page lists every
\* expense, the deposits page every deposit that has a note or a type
C16_ListFilters ==
    /\ (page = "expenses" /\ searchTerm = "") => out.filtered = expenses
    /\ (page = "deposits" /\ searchTerm = "") =>
          LET Shown(d) == d.hasNote \/ d.hasCategory
          IN  out.filtered = SelectSeq(deposits, Shown)

\* C17: when both queries have answered with an empty list (or no body),
\* the overview shows the dashboard, not the error view, and every
\* aggregate is a zero or empty value: total expenses, total income and
\* net savings 0, the sums of this and of last month 0, both percent
\* changes 0, no category, and 0 in each of the six trend entries.
C17_EmptyLists ==
    (/\ expensesQuery = Succeeded /\ depositsQuery = Succeeded
     /\ expenses = <<>> /\ deposits = <<>>
     /\ page # "none")
        => /\ page = "overview"
           /\ out.totalExpenses = Num(0) /\ out.totalIncome = Num(0)
           /\ out.netSavings = Num(0)
           /\ out.incomeThisMonth = Num(0) /\ out.incomeLastMonth = Num(0)
           /\ out.expensesThisMonth = Num(0)
           /\ out.expensesLastMonth = Num(0)
           /\ out.incomeChange = Num(0) /\ out.expensesChange = Num(0)
           /\ out.expensesByCategory = <<>>
           /\ out.expenseCategories = <<>>
           /\ Len(out.monthlyTrend) = 6
           /\ \A k \in 1..6 :
                 /\ out.monthlyTrend[k].expenses = Num(0)
                 /\ out.monthlyTrend[k].deposits = Num(0)

\* both queries answered with nothing (the deposits query without a body)
\* and the dashboard is on screen with 0 as its net savings
C17_Witness ==
    /\ expensesQuery = Succeeded /\ depositsQuery = Succeeded
    /\ expenses = <<>> /\ deposits = <<>>
    /\ page = "overview"
    /\ out.netSavings = Num(0)
    /\ out.incomeChange = Num(0)

\* the error view: a message and the retry button, and no figure
ErrorViewShown ==
    /\ page = "error"
    /\ DOMAIN out = {"message", "retry"}
    /\ out.retry
    /\ out.message \in {"No authentication token", "No user ID found",
                        "Network Error"}

Unauthorized(query) ==
    query = Failed("Request failed with status code 401")

SentInRange ==
    lastRequest.sent =>
        /\ lastRequest.data.month \in 1..12
        /\ lastRequest.data.amountLimit > 0
        /\ lastRequest.data.thresholdPercentage \in 1..100

\* no step taken while the amount limit is 0 or less sends a budget
NoSendWithoutAmount ==
    formData.amountLimit <= 0 =>
        (inFlight' <= inFlight /\ (isPending' => isPending))

\* C20: every budget the form sends has its month in 1..12, a positive
\* amount limit and a threshold percentage in 1..100, whatever was edited
\* before the submit, and a submit while the amount limit is 0 or less
\* sends nothing.
C20_SentBudgets == []SentInRange /\ [][NoSendWithoutAmount]_vars

\* a budget was sent after the month, the amount and the threshold had
\* been edited
C20_Witness ==
    /\ lastRequest.sent /\ isPending
    /\ lastRequest.data.month = 12
    /\ lastRequest.data.amountLimit = 20
    /\ lastRequest.data.thresholdPercentage = 1

\* C21: ProtectedRoute renders its children only once checkAuth found a
\* token and getCurrentUser resolved; while the check is under way it
\* renders the spinner alone; when the token is missing or the call failed
\* it renders the redirect to /login and not the children.
C21_ProtectedRoute ==
    /\ RouteView(route) = "child" => route.pc = "doneResolved"
    /\ route.pc \in {"mounted", "awaiting", "resolved", "rejected"}
          => RouteView(route) = "spinner"
    /\ route.pc \in {"doneNoToken", "doneRejected"}
          => RouteView(route) = "redirect"
    /\ (route.pc = "awaiting" /\ request.caller = "check") => request.bearer

\* the check has passed after a call that carried the token
C21_Witness ==
    /\ route.pc = "doneResolved"
    /\ RouteView(route) = "child"
    /\ location = "/dashboard"
    /\ storage.token

\* a call is answered in this step
Answered == request.status = "sent" /\ request'.status # "sent"

\* C22: an answer with status 401 removes 'token' and 'user' from
\* localStorage and assigns /login to window.location.href, and the call
\* is still rejected; an answer with another error status, or none, is
\* rejected with localStorage and the location as they were.
C22_ResponseInterceptor ==
    [][Answered =>
          /\ request'.code # 200 => request'.status = "rejected"
          /\ IF request'.code = 401
             THEN storage' = Cleared /\ href' = "/login"
             ELSE /\ storage' = storage
                  /\ href' = href /\ location' = location]_vars

\* a call that carried the token was answered 401; both items are gone
\* and the browser is sent to /login
C22_Witness ==
    /\ request.status = "rejected" /\ request.code = 401
    /\ request.bearer
    /\ storage = Cleared
    /\ href = "/login"

\* C23: when getCurrentUser fails after a token was found, both items
\* are removed from localStorage and isAuthenticated is false; however the
\* check ended (no token, success, failure) isLoading is false, so the
\* spinner is gone.
C23_CheckAuthEnds ==
    /\ route.pc \in {"rejected", "doneRejected"} =>
          /\ storage = Cleared
          /\ route.isAuthenticated = "false"
    /\ route.pc \in {"doneNoToken", "doneResolved", "doneRejected"} =>
          /\ ~route.isLoading
          /\ RouteView(route) # "spinner"

\* the check ended by a failed call that was not answered 401
C23_Witness ==
    /\ route.pc = "doneRejected"
    /\ href = ""
    /\ storage = Cleared
    /\ route.isAuthenticated = "false" /\ ~route.isLoading

\* a step taken while onSubmit of the Login or Register page awaits its call
SignInStep == signIn.pc = "awaiting"

\* localStorage or the place shown changes in this step
Moved == storage' # storage \/ location' # location \/ href' # href

\* the step that follows a successful call: both items stored, the router
\* at the dashboard, no document load
SignedInBy(call) ==
    /\ call.caller = signIn.page
    /\ call.status = "resolved"
    /\ storage' = Stored
    /\ location' = "/dashboard" /\ href' = href

\* after the step the page is at rest with isLoading false, after a
\* failure with a message
SignInAtRest ==
    /\ signIn'.pc = "idle" => ~signIn'.isLoading
    /\ signIn'.pc = "rejected" => signIn'.error # ""

\* C24: Login and Register store 'token' and 'user' and navigate to the
\* dashboard only after their call succeeded; when it fails localStorage
\* is unchanged, an error message is set and nothing navigates; in both
\* outcomes isLoading is false again.
C24_SignIn ==
    [][/\ SignInAtRest
       /\ (SignInStep /\ Moved) => SignedInBy(request)]_vars

\* C24 for calls that are not answered 401
C24_SignInUnless401 ==
    [][/\ SignInAtRest
       /\ (SignInStep /\ Moved /\ request'.code # 401)
             => SignedInBy(request)]_vars

(***************************************************************************)
(* The saves of the CRUD pages.                                            *)
(***************************************************************************)

\* the position of a call in the log of the expense form
Sent == 1..Len(calls)

\* a recurring expense is sent only behind a createRecurring that was
\* answered with success, and carries the id that call returned
BehindRecurring ==
    \A i \in Sent :
        (calls[i].api # "createRecurring" /\ calls[i].isRecurring)
            => /\ i > 1
               /\ calls[i - 1].api = "createRecurring"
               /\ calls[i - 1].status = "ok"
               /\ calls[i - 1].returnedId \in RecurringIds
               /\ calls[i].recurringExpenseId = calls[i - 1].returnedId

\* the step in which createRecurring is answered without success sends
\* nothing and ends handleSubmit
StopsWithoutRecurring ==
    (/\ saving.pc = "awaitRecurring"
     /\ calls'[Len(calls)].status \in {"refused", "failed"})
        => /\ Len(calls') = Len(calls)
           /\ saving'.pc = "idle"
           /\ ~expensesPage'.loading

\* loading is set exactly while handleSubmit is under way
LoadingWhileSaving == expensesPage.loading <=> saving.pc # "idle"

\* C25: when the recurring box is ticked, the expense is sent only after
\* createRecurring was answered with success, and carries the returned
\* recurringExpenseId; when createRecurring throws or answers success =
\* false no expense is sent; loading is false again after every outcome.
C25_RecurringThenExpense ==
    /\ [](BehindRecurring /\ LoadingWhileSaving)
    /\ [][StopsWithoutRecurring]_vars

\* a recurring expense was created behind its createRecurring and saved,
\* after an earlier createRecurring was refused
C25_Witness ==
    /\ Len(calls) = 3
    /\ calls[1].api = "createRecurring" /\ calls[1].status = "refused"
    /\ calls[2].api = "createRecurring" /\ calls[2].status = "ok"
    /\ calls[3].api = "create" /\ calls[3].status = "ok"
    /\ calls[3].recurringExpenseId = 9
    /\ ~expensesPage.loading

\* the budgets page's mutation settles in this step
BudgetSettles == inFlight' < inFlight

AfterBudgetSettles ==
    IF lastRequest'.status = "success"
    THEN /\ ~isModalOpen'
         /\ editingBudget' = 0
         /\ formData' = ResetFormData(now)
         /\ invalidated' = BudgetQueries
    ELSE /\ isModalOpen' = isModalOpen
         /\ editingBudget' = editingBudget
         /\ formData' = formData
         /\ invalidated' = invalidated

\* the expenses page's mutation settles in this step
ExpenseSettles == saving.pc = "awaitMutation" /\ saving'.pc = "idle"

AfterExpenseSettles ==
    IF calls'[Len(calls)].status = "ok"
    THEN /\ ~expensesPage'.isModalOpen
         /\ expensesPage'.editingExpense = 0
         /\ expensesPage'.formData = ResetExpenseForm
         /\ expensesPage'.invalidated
    ELSE /\ expensesPage'.isModalOpen = expensesPage.isModalOpen
         /\ expensesPage'.editingExpense = expensesPage.editingExpense
         /\ expensesPage'.formData = expensesPage.formData
         /\ expensesPage'.invalidated = expensesPage.invalidated

Unanswered == {i \in Sent : calls[i].status = "sent"}

\* C27: a CRUD page has at most one save request in flight; while a save
\* is pending a further submit starts no second create or update.
C27_OneSaveInFlight ==
    /\ inFlight <= 1
    /\ isPending <=> inFlight = 1
    /\ Cardinality(Unanswered) <= 1
    /\ expensesPage.loading <=> Cardinality(Unanswered) = 1

\* a save of the expenses page is pending while the form holds data that
\* a submit would send
C27_Witness ==
    /\ location = ExpensesPath
    /\ Cardinality(Unanswered) = 1
    /\ calls[Len(calls)].api = "update"
    /\ expensesPage.isModalOpen /\ expensesPage.formData.filled
    /\ expensesPage.editingExpense = 0

(***************************************************************************)
(* The overview over the default date range.                               *)
(***************************************************************************)

\* what a source that honours the default range [start of this month, end
\* of this month] returns: items dated in the month of the clock
Honoured(items) ==
    \A i \in 1..Len(items) :
        items[i].date.month = now.month /\ items[i].date.year = now.year

\* C28: the month sums and the six-month trend of the overview are derived
\* from the transactions fetched for [startDate, endDate] alone; with the
\* default range, the current month, and a source that honours it, the
\* sums of last month are 0, each percent change is 0 or 100, and every
\* entry of the trend but the newest is 0.
C28_DefaultRange ==
    (page = "overview" /\ Honoured(expenses) /\ Honoured(deposits)) =>
        /\ out.expensesLastMonth = Num(0)
        /\ out.incomeLastMonth = Num(0)
        /\ out.expensesChange \in {Num(0), Num(100)}
        /\ out.incomeChange \in {Num(0), Num(100)}
        /\ out.expensesChange = Num(0) <=> out.expensesThisMonth = Num(0)
        /\ out.incomeChange = Num(0) <=> out.incomeThisMonth = Num(0)
        /\ \A k \in 1..5 :
              /\ out.monthlyTrend[k].expenses = Num(0)
              /\ out.monthlyTrend[k].deposits = Num(0)

\* in January 2024 two expenses and a deposit of that month were fetched:
\* both changes are 100 and the newest entry of the trend holds the sums
C28_Witness ==
    /\ page = "overview"
    /\ now = Date(2024, 0)
    /\ Len(expenses) = 2 /\ Len(deposits) = 1
    /\ Honoured(expenses) /\ Honoured(deposits)
    /\ out.expensesChange = Num(100) /\ out.incomeChange = Num(100)
    /\ out.monthlyTrend[6].expenses = out.expensesThisMonth
    /\ out.monthlyTrend[6].deposits = Num(7)
    /\ out.monthlyTrend[5].expenses = Num(0)

====
